---- MODULE Spec2Model ----
(***************************************************************************)
(* Subtitle timing alignment of ScriptsToImageVoice: pipeline/subtitles.py *)
(* (per-scene timing analysis and the multi-scene stitcher),               *)
(* pipeline/types.py (SRT serialisation) and pipeline/audio.py (the        *)
(* combined audio track the subtitles are played against).                 *)
(*                                                                         *)
(* Times are exact multiples of one tick = 1/660 s.  Every duration in the *)
(* inputs is a multiple of 66 ticks (0.1 s), so the divisions by           *)
(* speedScale (0.5 to 2.0) and by the pause divisor 1.1 are exact and the  *)
(* integer arithmetic below is the real-number arithmetic of the code      *)
(* (the time-format inputs use other durations, at speedScale 1.0 only).   *)
(* Floating-point rounding is outside the model.                           *)
(* A string is a sequence of one-character strings.                        *)
(***************************************************************************)
EXTENDS Integers, Sequences, FiniteSets, TLC

VARIABLES
    pc,                   \* position in the pipeline run
    scene_dirs,           \* glob result: the scene_* directories, in glob order
    silence_duration,     \* argument of both generate_* functions
    combined_wav,         \* combined_all_scenes.wav: <<[scene, start_time, end_time]>>
    scene_files,          \* generate_combined_subtitles: scenes that have both artifacts
    k,                    \* index into scene_files of the next scene to process
    all_segments,         \* generate_combined_subtitles: the global segment list
    current_time_offset,  \* generate_combined_subtitles: offset of the next scene
    offsets,              \* per scene that gave segments: the offset added to them
    query_data,           \* analyze_voice_query_timing locals of the last call
    seg_positions,
    char_times,
    cur_time,
    scene_segments,       \* value returned by the last analyze_voice_query_timing call
    scene_key,            \* name of the scene the loop body ran on last
    outcome,              \* how the last processed scene ended
    ret,                  \* return value of generate_combined_subtitles
    writable,             \* whether open(output_path, 'w') succeeds
    opened,               \* the output file was opened (created or truncated)
    srt_file,             \* contents of the output file (<<>> while not written)
    log_records,          \* records handed to the module logger, in order
    \* scene_subtitle_generator.py, the CLI, run on the same directories
    cli_pc,               \* position in the CLI's generate_combined_subtitles
    cli_files,            \* its scene_files
    cli_k,                \* index into cli_files of the next scene to process
    cli_all,              \* its all_segments
    cli_offset,           \* its current_time_offset
    cli_units,            \* names of the scenes whose segments it appended
    cli_scene_key,        \* name of the scene its loop body ran on last
    cli_scene_segments,   \* value returned by its last analyze_voice_query_timing call
    cli_outcome,          \* how its last processed scene ended
    cli_ret,              \* its return value
    cli_srt,              \* contents of the output file it wrote
    \* pipeline/audio.py, generate_scene_voices: the loop that writes scene_sub.json
    voice_pc,             \* position: in the loop over the scenes, or reading back
    voice_data,           \* the scenes of the input JSON, in order
    voice_k,              \* index into voice_data of the next scene
    voice_subs,           \* the scene_sub.json documents written, with their text_all
    voice_r,              \* index into voice_subs of the next document read back
    voice_segments,       \* extract_segments_from_scene of the document read last
    \* pipeline/logging_utils.py in one process
    program,              \* what runs in the process: the image-prompt CLI or library calls
    log_pc,               \* position of the process
    env_log_level,        \* the LOG_LEVEL environment variable ("" when unset)
    arg_log_level,        \* --log_level of the image-prompt CLI ("" when not given)
    configured,           \* _CONFIGURED
    root_level,           \* level of the root logger
    root_handlers,        \* number of handlers of the root logger
    config_count,         \* how many calls have configured the root logger
    calls                 \* number of setup_logging / get_logger calls made

pipeline_vars == <<pc, scene_dirs, silence_duration, combined_wav, scene_files, k,
                   all_segments, current_time_offset, offsets, query_data, seg_positions,
                   char_times, cur_time, scene_segments, scene_key, outcome, ret,
                   writable, opened, srt_file, log_records>>

cli_vars == <<cli_pc, cli_files, cli_k, cli_all, cli_offset, cli_units, cli_scene_key,
              cli_scene_segments, cli_outcome, cli_ret, cli_srt>>

voice_vars == <<voice_pc, voice_data, voice_k, voice_subs, voice_r, voice_segments>>

logging_vars == <<program, log_pc, env_log_level, arg_log_level, configured, root_level,
                  root_handlers, config_count, calls>>

vars == <<pipeline_vars, cli_vars, voice_vars, logging_vars>>

-----------------------------------------------------------------------------
(* Units and Python helpers *)

\* one second in ticks (660 = lcm of what the divisions below need)
TicksPerSecond == 66 * 10

\* JSON null / Python None for a number
Null == 0 - 1

Min(a, b) == IF a < b THEN a ELSE b

Max(a, b) == IF a > b THEN a ELSE b

\* s[:n] for n >= 0
Prefix(s, n) == SubSeq(s, 1, Min(n, Len(s)))

\* s[-n:] for n >= 0; Python reads s[-0:] as s[0:], the whole string
Suffix(s, n) == IF n = 0 THEN s ELSE SubSeq(s, Max(1, Len(s) - n + 1), Len(s))

\* s.endswith(t)
EndsWith(s, t) == Len(s) >= Len(t) /\ SubSeq(s, Len(s) - Len(t) + 1, Len(s)) = t

\* s[:-1]
DropLast(s) == SubSeq(s, 1, Len(s) - 1)

\* characters str.strip() removes
Whitespace == {" "}

RECURSIVE LStrip(_)
LStrip(s) == IF s # <<>> /\ Head(s) \in Whitespace THEN LStrip(Tail(s)) ELSE s

RECURSIVE RStrip(_)
RStrip(s) == IF s # <<>> /\ s[Len(s)] \in Whitespace THEN RStrip(DropLast(s)) ELSE s

\* s.strip()
Strip(s) == RStrip(LStrip(s))

\* "".join(texts)
RECURSIVE Concat(_)
Concat(texts) == IF texts = <<>> THEN <<>> ELSE Head(texts) \o Concat(Tail(texts))

\* (x or 0.0)
Or0(x) == IF x = Null THEN 0 ELSE x

\* x / speed_scale, speed_scale given in tenths (12 is 1.2)
DivTenths(x, tenths) == (x * 10) \div tenths

-----------------------------------------------------------------------------
(* pipeline/subtitles.py: extract_segments_from_scene *)

RECURSIVE KanaSegments(_, _, _)
KanaSegments(kana_list, texts_list, i) ==
    IF i > Len(kana_list) THEN <<>>
    ELSE LET kana == kana_list[i]
             text_val == IF i <= Len(texts_list) THEN texts_list[i] ELSE <<>>
             rest == KanaSegments(kana_list, texts_list, i + 1)
         IN IF Strip(kana) # <<>>
            THEN <<[text |-> Strip(text_val), kana_text |-> Strip(kana), type |-> "kana"]>> \o rest
            ELSE rest

RECURSIVE ContentSegments(_, _)
ContentSegments(contents, i) ==
    IF i > Len(contents) THEN <<>>
    ELSE KanaSegments(contents[i].texts_kana, contents[i].texts, 1)
         \o ContentSegments(contents, i + 1)

\* scene_data: [title, title_kana, contents]; an absent title_kana or
\* texts_kana is the empty string / empty list, which the code treats alike
extract_segments_from_scene(scene_data) ==
    LET title_kana == Strip(scene_data.title_kana)
        head == IF title_kana # <<>>
                THEN <<[text |-> Strip(scene_data.title), kana_text |-> title_kana,
                        type |-> "title-kana"]>>
                ELSE <<>>
    IN head \o ContentSegments(scene_data.contents, 1)

-----------------------------------------------------------------------------
(* pipeline/subtitles.py: analyze_voice_query_timing *)

\* kana[:3] and kana[-3:]
BoundaryChars == 3

\* pause length divisor 1.1, in tenths
PauseDivisor == 11

\* speed_scale = query_data.get("speedScale", 1.0) or 1.0, in tenths
SpeedScale(query) ==
    IF query.speedScale = Null \/ query.speedScale = 0 THEN 10
    ELSE query.speedScale

\* mora texts that take time but no character of the kana text
NonAdvancing == { <<"p", "a", "u">>, <<"c", "l">>, <<"N">>, <<"U">>, <<"I">> }

\* SegPositions with a space put between the segments' kana texts
RECURSIVE SegPositionsSpaced(_, _, _)
SegPositionsSpaced(segments, i, combined_text) ==
    IF i > Len(segments) THEN <<>>
    ELSE LET seg == segments[i]
             kana == seg.kana_text
             start_pos == Len(combined_text)
             combined == combined_text \o kana
             end_pos == Len(combined)
         IN <<[segment |-> seg, start_pos |-> start_pos, end_pos |-> end_pos,
               start_chars |-> Prefix(kana, BoundaryChars),
               end_chars |-> Suffix(kana, BoundaryChars)]>>
            \o SegPositionsSpaced(segments, i + 1, combined \o <<" ">>)

\* the first loop: character range of every segment in the combined kana text
RECURSIVE SegPositions(_, _, _)
SegPositions(segments, i, combined_text) ==
    IF i > Len(segments) THEN <<>>
    ELSE LET seg == segments[i]
             kana == seg.kana_text
             start_pos == Len(combined_text)
             combined == combined_text \o kana
             end_pos == Len(combined)
         IN <<[segment |-> seg, start_pos |-> start_pos, end_pos |-> end_pos,
               start_chars |-> Prefix(kana, BoundaryChars),
               end_chars |-> Suffix(kana, BoundaryChars)]>>
            \o SegPositions(segments, i + 1, combined)

\* MoraDuration without the division by speed_scale
MoraDurationUnscaled(mora, speed_scale) ==
    Or0(mora.consonant_length) + Or0(mora.vowel_length)

\* (consonant_length or 0.0) / speed_scale + (vowel_length or 0.0) / speed_scale
MoraDuration(mora, speed_scale) ==
    DivTenths(Or0(mora.consonant_length), speed_scale)
    + DivTenths(Or0(mora.vowel_length), speed_scale)

\* MoraStep advancing the cursor by one per mora instead of len(ch)
MoraStepByOne(st, mora, speed_scale) ==
    LET ch == mora.text
        dur == MoraDuration(mora, speed_scale)
    IN IF ch \in NonAdvancing
       THEN [st EXCEPT !.cur_time = @ + dur]
       ELSE [st EXCEPT
               !.char_times = Append(@, [char |-> ch, char_pos |-> st.cur_pos,
                                         start_time |-> st.cur_time,
                                         end_time |-> st.cur_time + dur]),
               !.cur_time = @ + dur,
               !.cur_pos = @ + 1]

\* MoraStep with a marker moving the cursor like any other mora text
MoraStepMarkerCounted(st, mora, speed_scale) ==
    LET ch == mora.text
        dur == MoraDuration(mora, speed_scale)
    IN IF ch \in NonAdvancing
       THEN [st EXCEPT !.cur_time = @ + dur, !.cur_pos = @ + Len(ch)]
       ELSE [st EXCEPT
               !.char_times = Append(@, [char |-> ch, char_pos |-> st.cur_pos,
                                         start_time |-> st.cur_time,
                                         end_time |-> st.cur_time + dur]),
               !.cur_time = @ + dur,
               !.cur_pos = @ + Len(ch)]

\* body of the loop over the moras of a phrase; st = [char_times, cur_time, cur_pos, error].
\* Every mora of the inputs carries a non-empty text, as the engine sends it, so
\* the skip of a mora without text (lines 72-73) never applies.
MoraStep(st, mora, speed_scale) ==
    LET ch == mora.text
        dur == MoraDuration(mora, speed_scale)
    IN IF ch \in NonAdvancing
       THEN [st EXCEPT !.cur_time = @ + dur]
       ELSE [st EXCEPT
               !.char_times = Append(@, [char |-> ch, char_pos |-> st.cur_pos,
                                         start_time |-> st.cur_time,
                                         end_time |-> st.cur_time + dur]),
               !.cur_time = @ + dur,
               !.cur_pos = @ + Len(ch)]

RECURSIVE MorasLoop(_, _, _, _)
MorasLoop(st, moras, i, speed_scale) ==
    IF i > Len(moras) THEN st
    ELSE MorasLoop(MoraStep(st, moras[i], speed_scale), moras, i + 1, speed_scale)

\* PauseStep adding the pause's lengths as they are, not divided by 1.1
PauseStepUndamped(st, pause) ==
    IF pause.kind = "absent" THEN [st EXCEPT !.error = "KeyError"]
    ELSE IF pause.kind = "null" THEN st
    ELSE [st EXCEPT !.cur_time = @ + Or0(pause.vowel_length) + Or0(pause.consonant_length)]

\* pause = phrase["pause_mora"]: a KeyError when the phrase has no such key;
\* a null pause adds nothing; otherwise (vowel + consonant) / 1.1
PauseStep(st, pause) ==
    IF pause.kind = "absent" THEN [st EXCEPT !.error = "KeyError"]
    ELSE IF pause.kind = "null" THEN st
    ELSE [st EXCEPT !.cur_time =
            @ + DivTenths(Or0(pause.vowel_length) + Or0(pause.consonant_length), PauseDivisor)]

RECURSIVE PhrasesLoop(_, _, _, _)
PhrasesLoop(st, accent_phrases, i, speed_scale) ==
    IF i > Len(accent_phrases) \/ st.error # "none" THEN st
    ELSE PhrasesLoop(PauseStep(MorasLoop(st, accent_phrases[i].moras, 1, speed_scale),
                               accent_phrases[i].pause_mora),
                     accent_phrases, i + 1, speed_scale)

\* the second loop: char_times, cur_time (and the exception that ends it)
Timeline(query) ==
    PhrasesLoop([char_times |-> <<>>, cur_time |-> 0, cur_pos |-> 0, error |-> "none"],
                query.accent_phrases, 1, SpeedScale(query))

\* StartIndex taking the first sample strictly after start_pos
StartIndexAfter(cts, start_pos) ==
    LET js == {j \in 1..Len(cts) : cts[j].char_pos > start_pos}
    IN IF js = {} THEN 0 ELSE CHOOSE j \in js : \A j2 \in js : j <= j2

\* index of the first sample with char_pos >= start_pos, 0 when there is none
StartIndex(cts, start_pos) ==
    LET js == {j \in 1..Len(cts) : cts[j].char_pos >= start_pos}
    IN IF js = {} THEN 0 ELSE CHOOSE j \in js : \A j2 \in js : j <= j2

\* EndIndex taking the last sample at or before end_pos
EndIndexAtOrBefore(cts, end_pos) ==
    LET js == {j \in 1..Len(cts) : cts[j].char_pos <= end_pos}
    IN IF js = {} THEN 0 ELSE CHOOSE j \in js : \A j2 \in js : j >= j2

\* index of the last sample with char_pos < end_pos, 0 when there is none
EndIndex(cts, end_pos) ==
    LET js == {j \in 1..Len(cts) : cts[j].char_pos < end_pos}
    IN IF js = {} THEN 0 ELSE CHOOSE j \in js : \A j2 \in js : j >= j2

\* StartAssertOk with the assert statement left out
StartAssertSkipped(cts, sp) == TRUE

\* the two assert statements of one segment
StartAssertOk(cts, sp) ==
    LET j == StartIndex(cts, sp.start_pos)
    IN j = 0 \/ cts[j].char = Prefix(sp.start_chars, Len(cts[j].char))

EndAssertOk(cts, sp) ==
    LET j == EndIndex(cts, sp.end_pos)
    IN j = 0 \/ cts[j].char = Suffix(sp.end_chars, Len(cts[j].char))

\* TrimText without the test for a doubled mark
TrimTextAlways(text_val) ==
    LET t1 == IF EndsWith(text_val, <<".">>) THEN DropLast(text_val) ELSE text_val
    IN IF EndsWith(t1, <<",">>) THEN DropLast(t1) ELSE t1

\* TrimText with the two removals in the other order
TrimTextCommaFirst(text_val) ==
    LET t1 == IF EndsWith(text_val, <<",">>) /\ ~EndsWith(text_val, <<",", ",">>)
              THEN DropLast(text_val) ELSE text_val
    IN IF EndsWith(t1, <<".">>) /\ ~EndsWith(t1, <<".", ".">>)
       THEN DropLast(t1) ELSE t1

\* the trailing "." / "," removal of the display text
TrimText(text_val) ==
    LET t1 == IF EndsWith(text_val, <<".">>) /\ ~EndsWith(text_val, <<".", ".">>)
              THEN DropLast(text_val) ELSE text_val
    IN IF EndsWith(t1, <<",">>) /\ ~EndsWith(t1, <<",", ",">>)
       THEN DropLast(t1) ELSE t1

\* the SubtitleSegment built for seg_positions[i]
TimedSegment(cts, total_time, sp, i) ==
    LET js == StartIndex(cts, sp.start_pos)
        je == EndIndex(cts, sp.end_pos)
    IN [index |-> i,
        start_time |-> IF js = 0 THEN 0 ELSE cts[js].start_time,
        end_time |-> IF je = 0 THEN total_time ELSE cts[je].end_time,
        text |-> TrimText(sp.segment.text),
        kana_text |-> sp.segment.kana_text,
        segment_type |-> sp.segment.type]

\* the whole function: [status, result, seg_positions, char_times, cur_time]
analyze_voice_query_timing(query, segments) ==
    LET sps == SegPositions(segments, 1, <<>>)
        tl == Timeline(query)
        cts == tl.char_times
        ok == \A i \in 1..Len(sps) : StartAssertOk(cts, sps[i]) /\ EndAssertOk(cts, sps[i])
    IN [status |-> IF tl.error # "none" THEN tl.error
                   ELSE IF ok THEN "ok" ELSE "AssertionError",
        result |-> IF tl.error = "none" /\ ok
                   THEN [i \in 1..Len(sps) |-> TimedSegment(cts, tl.cur_time, sps[i], i)]
                   ELSE <<>>,
        seg_positions |-> sps,
        char_times |-> cts,
        cur_time |-> tl.cur_time]

-----------------------------------------------------------------------------
(* pipeline/types.py: SubtitleSegment.to_srt_format and _format_time *)

\* format_time with the milliseconds rounded to the nearest
format_time_rounded(seconds) ==
    [hours |-> seconds \div (3600 * TicksPerSecond),
     minutes |-> (seconds % (3600 * TicksPerSecond)) \div (60 * TicksPerSecond),
     seconds_int |-> (seconds % (60 * TicksPerSecond)) \div TicksPerSecond,
     milliseconds |->
        ((seconds % TicksPerSecond) * 1000 + TicksPerSecond \div 2) \div TicksPerSecond]

\* [hours, minutes, seconds_int, milliseconds] of a time in ticks
format_time(seconds) ==
    [hours |-> seconds \div (3600 * TicksPerSecond),
     minutes |-> (seconds % (3600 * TicksPerSecond)) \div (60 * TicksPerSecond),
     seconds_int |-> (seconds % (60 * TicksPerSecond)) \div TicksPerSecond,
     milliseconds |-> ((seconds % TicksPerSecond) * 1000) \div TicksPerSecond]

\* the four lines of one record: index, "start --> end", text, blank
to_srt_format(seg) ==
    <<[line |-> "index", index |-> seg.index],
      [line |-> "times", start |-> format_time(seg.start_time),
                         end |-> format_time(seg.end_time)],
      [line |-> "text", text |-> seg.text],
      [line |-> "blank"]>>

-----------------------------------------------------------------------------
(* natural sort key of a scene directory; a name is the digits after "scene_" *)

RECURSIVE DigitsValue(_)
DigitsValue(ds) == IF ds = <<>> THEN 0 ELSE DigitsValue(DropLast(ds)) * 10 + ds[Len(ds)]

\* natural_sort_key reading the first digit only
natural_sort_key_first_digit(dir) == IF dir.name = <<>> THEN 0 ELSE dir.name[1]

\* int(nums[0]) if nums else 0
natural_sort_key(dir) == DigitsValue(dir.name)

\* sorted(xs, key=natural_sort_key): stable
RECURSIVE InsertByKey(_, _)
InsertByKey(sorted, x) ==
    IF sorted = <<>> THEN <<x>>
    ELSE IF natural_sort_key(sorted[Len(sorted)]) <= natural_sort_key(x)
         THEN Append(sorted, x)
         ELSE Append(InsertByKey(DropLast(sorted), x), sorted[Len(sorted)])

RECURSIVE SortedByKey(_)
SortedByKey(xs) ==
    IF xs = <<>> THEN <<>> ELSE InsertByKey(SortedByKey(DropLast(xs)), xs[Len(xs)])

-----------------------------------------------------------------------------
(* pipeline/audio.py: the combined audio track *)

\* length of a scene's voice_audio.wav, taken as the elapsed time of the timing
\* graph the audio was synthesised from
AudioDuration(dir) == Timeline(dir.query_data).cur_time

\* combine_wav_files: each file's frames, then silence unless it is the last
RECURSIVE CombineFrom(_, _, _, _)
CombineFrom(input_files, i, pos, silence) ==
    IF i > Len(input_files) THEN <<>>
    ELSE LET end == pos + AudioDuration(input_files[i])
             next == IF i < Len(input_files) THEN end + silence ELSE end
         IN <<[scene |-> input_files[i].name, start_time |-> pos, end_time |-> end]>>
            \o CombineFrom(input_files, i + 1, next, silence)

combine_wav_files(input_files, silence) == CombineFrom(input_files, 1, 0, silence)

\* generate_scene_voices, lines 152-161: the scenes it generated are the
\* directories holding all three artifacts; they are combined when more than one
CombineAudio ==
    /\ pc = "voices"
    /\ LET generated == SelectSeq(scene_dirs, LAMBDA d : d.missing = "none")
       IN combined_wav' = IF Len(generated) > 1
                          THEN combine_wav_files(SortedByKey(generated), silence_duration)
                          ELSE <<>>
    /\ pc' = "scan"
    /\ UNCHANGED <<scene_dirs, silence_duration, scene_files, k, all_segments,
                   current_time_offset, offsets, query_data, seg_positions, char_times,
                   cur_time, scene_segments, scene_key, outcome, ret, writable, opened,
                   srt_file, log_records>>
    /\ UNCHANGED <<cli_vars, voice_vars, logging_vars>>

-----------------------------------------------------------------------------
(* pipeline/subtitles.py: generate_combined_subtitles *)

\* one call of log.warning / log.error / log.info with its extra fields
LogRecord(level, msg, extra) == [level |-> level, msg |-> msg, extra |-> extra]

\* line 157: a warning for every directory without both artifacts
MissingWarnings(dirs) ==
    LET missing == SelectSeq(dirs, LAMBDA d : d.missing # "none")
    IN [i \in 1..Len(missing) |->
           LogRecord("warning", "missing artifacts for scene", [scene |-> missing[i].name])]

\* lines 150-165: sort the directories, keep those with both artifacts
ScanScenes ==
    /\ pc = "scan"
    /\ LET found == SelectSeq(SortedByKey(scene_dirs), LAMBDA d : d.missing = "none")
       IN /\ scene_files' = found
          /\ IF found = <<>>
             THEN /\ pc' = "done" /\ ret' = [ok |-> FALSE, path |-> "none"]
                  /\ log_records' = log_records \o MissingWarnings(SortedByKey(scene_dirs))
                        \o <<LogRecord("error", "no scenes found for subtitles",
                                        [scene_files |-> <<>>])>>
             ELSE /\ pc' = "loop" /\ ret' = ret
                  /\ log_records' = log_records \o MissingWarnings(SortedByKey(scene_dirs))
    /\ k' = 1
    /\ UNCHANGED <<scene_dirs, silence_duration, combined_wav, all_segments,
                   current_time_offset, offsets, query_data, seg_positions, char_times,
                   cur_time, scene_segments, scene_key, outcome, writable, opened,
                   srt_file>>
    /\ UNCHANGED <<cli_vars, voice_vars, logging_vars>>

\* AppendShifted with the offset added to start_time only
RECURSIVE AppendShiftedStartOnly(_, _, _, _)
AppendShiftedStartOnly(all, segs, i, offset) ==
    IF i > Len(segs) THEN all
    ELSE AppendShiftedStartOnly(Append(all, [segs[i] EXCEPT !.start_time = @ + offset,
                                                            !.index = Len(all) + 1]),
                                segs, i + 1, offset)

\* AppendShifted keeping the index analyze_voice_query_timing gave
RECURSIVE AppendShiftedKeepIndex(_, _, _, _)
AppendShiftedKeepIndex(all, segs, i, offset) ==
    IF i > Len(segs) THEN all
    ELSE AppendShiftedKeepIndex(Append(all, [segs[i] EXCEPT !.start_time = @ + offset,
                                                            !.end_time = @ + offset]),
                                segs, i + 1, offset)

\* lines 184-188: offset, renumber and append the segments of one scene
RECURSIVE AppendShifted(_, _, _, _)
AppendShifted(all, segs, i, offset) ==
    IF i > Len(segs) THEN all
    ELSE AppendShifted(Append(all, [segs[i] EXCEPT !.start_time = @ + offset,
                                                   !.end_time = @ + offset,
                                                   !.index = Len(all) + 1]),
                       segs, i + 1, offset)

\* NextOffset from the scene's own end time, the earlier offset dropped
NextOffsetLocal(offset, segs, silence) ==
    IF segs # <<>> THEN segs[Len(segs)].end_time + silence ELSE offset

\* lines 190-192: the offset after a scene whose segments were appended;
\* scene_segments[-1].end_time is read after the offset was added to it
NextOffset(offset, segs, silence) ==
    IF segs # <<>> THEN (segs[Len(segs)].end_time + offset) + silence ELSE offset

\* PcAfter without the except clauses: every exception ends the run
PcAfterUncaught(status) == IF status \in {"KeyError", "AssertionError"} THEN "crashed" ELSE "loop"

\* lines 175-182: AssertionError and SubtitleGenerationError are caught and the
\* loop goes on; any other exception leaves generate_combined_subtitles
PcAfter(status) == IF status = "KeyError" THEN "crashed" ELSE "loop"

\* SkippedOffset advancing by the silence that follows the scene's audio
SkippedOffsetSilence(offset, silence) == offset + silence

\* lines 172-173: the offset after a scene without segments (continue)
SkippedOffset(offset, silence) == offset

\* lines 170-196: one iteration of the loop over scene_files (voice_query.json
\* is readable whenever it exists, so SubtitleGenerationError is not raised)
\* (scene, segments and a are bound once, as the loop body computes them once)
ProcessScene ==
    /\ pc = "loop"
    /\ k <= Len(scene_files)
    /\ \E scene \in {scene_files[k]} :
       \E segments \in {extract_segments_from_scene(scene.scene_sub_data)} :
       \E a \in {analyze_voice_query_timing(scene.query_data, segments)} :
          IF segments = <<>>
          THEN /\ outcome' = "no segments"
               /\ pc' = pc
               /\ log_records' = Append(log_records,
                       LogRecord("warning", "no segments", [scene |-> scene.name]))
               /\ current_time_offset' = SkippedOffset(current_time_offset, silence_duration)
               /\ UNCHANGED <<all_segments, offsets, query_data,
                              seg_positions, char_times, cur_time, scene_segments>>
          ELSE /\ query_data' = scene.query_data
               /\ seg_positions' = a.seg_positions
               /\ char_times' = a.char_times
               /\ cur_time' = a.cur_time
               /\ scene_segments' = a.result
               /\ outcome' = a.status
               /\ pc' = PcAfter(a.status)
               /\ log_records' =
                     IF a.status = "AssertionError"
                     THEN Append(log_records,
                                 LogRecord("error", "timing assertion failed",
                                           [scene |-> scene.name, error |-> "AssertionError"]))
                     ELSE log_records
               /\ IF a.status = "ok"
                  THEN /\ all_segments' = AppendShifted(all_segments, a.result, 1,
                                                        current_time_offset)
                       /\ current_time_offset' = NextOffset(current_time_offset, a.result,
                                                            silence_duration)
                       /\ offsets' = Append(offsets,
                               [scene |-> scene.name, offset |-> current_time_offset,
                                first |-> Len(all_segments) + 1,
                                local_start |-> a.result[1].start_time,
                                local_end |-> a.result[Len(a.result)].end_time])
                  ELSE UNCHANGED <<all_segments, current_time_offset, offsets>>
    /\ scene_key' = scene_files[k].name
    /\ k' = k + 1
    /\ UNCHANGED <<scene_dirs, silence_duration, combined_wav, scene_files, ret, writable,
                   opened, srt_file>>
    /\ UNCHANGED <<cli_vars, voice_vars, logging_vars>>

\* CloseGapsIn closing a gap from the other side: the next segment's
\* start_time is moved back to the end_time
CloseGapsInBackward(all) ==
    [i \in 1..Len(all) |->
        IF i > 1 /\ all[i - 1].end_time < all[i].start_time
        THEN [all[i] EXCEPT !.start_time = all[i - 1].end_time]
        ELSE all[i]]

\* lines 202-204: extend an end_time to the next segment's start_time
CloseGapsIn(all) ==
    [i \in 1..Len(all) |->
        IF i < Len(all) /\ all[i].end_time < all[i + 1].start_time
        THEN [all[i] EXCEPT !.end_time = all[i + 1].start_time]
        ELSE all[i]]

\* PcAfterLoop going on to the output file with an empty list as well
PcAfterLoopWrite(all) == "write"

\* lines 198-200: an empty global list ends the function before the output
\* file is touched
PcAfterLoop(all) == IF all = <<>> THEN "done" ELSE "write"

\* lines 198-204: after the loop
CloseGaps ==
    /\ pc = "loop"
    /\ k > Len(scene_files)
    /\ pc' = PcAfterLoop(all_segments)
    /\ IF PcAfterLoop(all_segments) = "done"
       THEN /\ ret' = [ok |-> FALSE, path |-> "none"] /\ all_segments' = all_segments
            /\ log_records' = Append(log_records,
                    LogRecord("error", "no subtitle segments produced", [none |-> TRUE]))
       ELSE /\ ret' = ret /\ all_segments' = CloseGapsIn(all_segments)
            /\ log_records' = log_records
    /\ UNCHANGED <<scene_dirs, silence_duration, combined_wav, scene_files, k,
                   current_time_offset, offsets, query_data, seg_positions, char_times,
                   cur_time, scene_segments, scene_key, outcome, writable, opened,
                   srt_file>>
    /\ UNCHANGED <<cli_vars, voice_vars, logging_vars>>

RECURSIVE SrtOf(_, _)
SrtOf(all, i) == IF i > Len(all) THEN <<>> ELSE to_srt_format(all[i]) \o SrtOf(all, i + 1)

\* WriteSrt with a serialisation that stores the end_time back, one tick later
WriteSrtStoring ==
    /\ pc = "write"
    /\ writable
    /\ opened' = TRUE
    /\ srt_file' = SrtOf(all_segments, 1)
    /\ all_segments' = [i \in 1..Len(all_segments) |->
                           [all_segments[i] EXCEPT !.end_time = @ + 1]]
    /\ ret' = [ok |-> TRUE, path |-> "combined_subtitles.srt"]
    /\ pc' = "done"
    /\ UNCHANGED <<scene_dirs, silence_duration, combined_wav, scene_files, k,
                   current_time_offset, offsets, query_data, seg_positions, char_times,
                   cur_time, scene_segments, scene_key, outcome, writable, log_records>>
    /\ UNCHANGED <<cli_vars, voice_vars, logging_vars>>

\* lines 206-215: write every record to the output file; when the file cannot
\* be opened the exception is caught and the function returns (False, "")
WriteSrt ==
    /\ pc = "write"
    /\ IF writable
       THEN /\ opened' = TRUE
            /\ srt_file' = SrtOf(all_segments, 1)
            /\ ret' = [ok |-> TRUE, path |-> "combined_subtitles.srt"]
            /\ log_records' = Append(log_records,
                    LogRecord("info", "SRT generated",
                              [file |-> "combined_subtitles.srt",
                               segments |-> Len(all_segments)]))
       ELSE /\ ret' = [ok |-> FALSE, path |-> "none"]
            /\ log_records' = Append(log_records,
                    LogRecord("error", "SRT write failed",
                              [file |-> "combined_subtitles.srt", error |-> "OSError"]))
            /\ UNCHANGED <<opened, srt_file>>
    /\ pc' = "done"
    /\ UNCHANGED <<scene_dirs, silence_duration, combined_wav, scene_files, k,
                   all_segments, current_time_offset, offsets, query_data,
                   seg_positions, char_times, cur_time, scene_segments, scene_key,
                   outcome, writable>>
    /\ UNCHANGED <<cli_vars, voice_vars, logging_vars>>

-----------------------------------------------------------------------------
(* scene_subtitle_generator.py: the CLI's own copies of the functions above *)

\* text = content_item["texts"][text_index] is read for every kana entry
RECURSIVE CliTextsPresent(_, _)
CliTextsPresent(contents, i) ==
    IF i > Len(contents) THEN TRUE
    ELSE Len(contents[i].texts) >= Len(contents[i].texts_kana)
         /\ CliTextsPresent(contents, i + 1)

\* extract_segments_from_scene: the same segments, an IndexError when a
\* contents entry has fewer texts than texts_kana
cli_extract_segments_from_scene(scene_data) ==
    IF CliTextsPresent(scene_data.contents, 1)
    THEN [status |-> "ok", segments |-> extract_segments_from_scene(scene_data)]
    ELSE [status |-> "IndexError", segments |-> <<>>]

\* speed_scale = query_data.get("speedScale", 1.0), in tenths; the inputs give
\* a positive number or leave the key out
CliSpeedScale(query) == IF query.speedScale = Null THEN 10 ELSE query.speedScale

\* char_duration = consonant_length + vowel_length, not divided
CliMoraStep(st, mora) ==
    LET ch == mora.text
        dur == Or0(mora.consonant_length) + Or0(mora.vowel_length)
    IN IF ch \in NonAdvancing
       THEN [st EXCEPT !.cur_time = @ + dur]
       ELSE [st EXCEPT
               !.char_times = Append(@, [char |-> ch, char_pos |-> st.cur_pos,
                                         start_time |-> st.cur_time,
                                         end_time |-> st.cur_time + dur]),
               !.cur_time = @ + dur,
               !.cur_pos = @ + Len(ch)]

RECURSIVE CliMorasLoop(_, _, _)
CliMorasLoop(st, moras, i) ==
    IF i > Len(moras) THEN st ELSE CliMorasLoop(CliMoraStep(st, moras[i]), moras, i + 1)

\* if "pause_mora" in phrase and phrase["pause_mora"]: current_time += vowel_length
CliPauseStep(st, pause) ==
    IF pause.kind = "mora" THEN [st EXCEPT !.cur_time = @ + Or0(pause.vowel_length)] ELSE st

RECURSIVE CliPhrasesLoop(_, _, _)
CliPhrasesLoop(st, accent_phrases, i) ==
    IF i > Len(accent_phrases) THEN st
    ELSE CliPhrasesLoop(CliPauseStep(CliMorasLoop(st, accent_phrases[i].moras, 1),
                                     accent_phrases[i].pause_mora),
                        accent_phrases, i + 1)

CliTimeline(query) ==
    CliPhrasesLoop([char_times |-> <<>>, cur_time |-> 0, cur_pos |-> 0, error |-> "none"],
                   query.accent_phrases, 1)

\* the SubtitleSegment built for seg_positions[i]: both times divided by
\* speed_scale at the end
CliTimedSegment(cts, total_time, sp, i, speed_scale) ==
    LET js == StartIndex(cts, sp.start_pos)
        je == EndIndex(cts, sp.end_pos)
    IN [index |-> i,
        start_time |-> DivTenths(IF js = 0 THEN 0 ELSE cts[js].start_time, speed_scale),
        end_time |-> DivTenths(IF je = 0 THEN total_time ELSE cts[je].end_time, speed_scale),
        text |-> TrimText(sp.segment.text),
        kana_text |-> sp.segment.kana_text,
        segment_type |-> sp.segment.type]

\* analyze_voice_query_timing of the CLI: [status, result]
cli_analyze_voice_query_timing(query, segments) ==
    LET sps == SegPositions(segments, 1, <<>>)
        tl == CliTimeline(query)
        cts == tl.char_times
        ok == \A i \in 1..Len(sps) : StartAssertOk(cts, sps[i]) /\ EndAssertOk(cts, sps[i])
    IN [status |-> IF ok THEN "ok" ELSE "AssertionError",
        result |-> IF ok
                   THEN [i \in 1..Len(sps) |->
                            CliTimedSegment(cts, tl.cur_time, sps[i], i, CliSpeedScale(query))]
                   ELSE <<>>]

\* a < b for the digit strings of two names ("10" < "2", "1" < "10")
RECURSIVE LexLess(_, _)
LexLess(a, b) ==
    IF b = <<>> THEN FALSE
    ELSE IF a = <<>> THEN TRUE
    ELSE IF Head(a) # Head(b) THEN Head(a) < Head(b)
    ELSE LexLess(Tail(a), Tail(b))

\* sorted(scene_dirs): by path string
RECURSIVE InsertByName(_, _)
InsertByName(sorted, x) ==
    IF sorted = <<>> THEN <<x>>
    ELSE IF ~LexLess(x.name, sorted[Len(sorted)].name)
         THEN Append(sorted, x)
         ELSE Append(InsertByName(DropLast(sorted), x), sorted[Len(sorted)])

RECURSIVE SortedByName(_)
SortedByName(xs) ==
    IF xs = <<>> THEN <<>> ELSE InsertByName(SortedByName(DropLast(xs)), xs[Len(xs)])

\* lines 268-283: scene_sub.json is opened for every directory (a missing
\* one raises FileNotFoundError), a missing voice_query.json skips the scene
CliScan ==
    /\ cli_pc = "start"
    /\ pc \in {"done", "crashed"}
    /\ LET ordered == SortedByName(scene_dirs)
           found == SelectSeq(ordered, LAMBDA d : d.missing = "none")
       IN IF \E i \in 1..Len(ordered) : ordered[i].missing = "sub"
          THEN cli_pc' = "crashed" /\ UNCHANGED <<cli_files, cli_ret>>
          ELSE /\ cli_files' = found
               /\ IF found = <<>>
                  THEN cli_pc' = "done" /\ cli_ret' = [ok |-> FALSE, path |-> "absent"]
                  ELSE cli_pc' = "loop" /\ cli_ret' = cli_ret
    /\ UNCHANGED <<cli_k, cli_all, cli_offset, cli_units, cli_scene_key,
                   cli_scene_segments, cli_outcome, cli_srt>>
    /\ UNCHANGED <<pipeline_vars, voice_vars, logging_vars>>

\* lines 317-320: scene_duration = scene_segments[-1].end_time - current_time_offset;
\* current_time_offset += scene_duration + silence_duration (segs in local time)
CliNextOffset(offset, segs, silence) ==
    IF segs # <<>>
    THEN offset + (((segs[Len(segs)].end_time + offset) - offset) + silence)
    ELSE offset

\* lines 291-322: one iteration of the CLI's loop; no exception is caught
CliProcessScene ==
    /\ cli_pc = "loop"
    /\ cli_k <= Len(cli_files)
    /\ LET scene == cli_files[cli_k]
           e == cli_extract_segments_from_scene(scene.scene_sub_data)
           a == cli_analyze_voice_query_timing(scene.query_data, e.segments)
       IN IF e.status # "ok"
          THEN /\ cli_outcome' = e.status
               /\ cli_pc' = "crashed"
               /\ UNCHANGED <<cli_all, cli_offset, cli_units, cli_scene_segments>>
          ELSE IF e.segments = <<>>
          THEN /\ cli_outcome' = "no segments"
               /\ cli_pc' = cli_pc
               /\ UNCHANGED <<cli_all, cli_offset, cli_units, cli_scene_segments>>
          ELSE /\ cli_outcome' = a.status
               /\ cli_scene_segments' = a.result
               /\ cli_pc' = IF a.status = "ok" THEN "loop" ELSE "crashed"
               /\ IF a.status = "ok"
                  THEN /\ cli_all' = AppendShifted(cli_all, a.result, 1, cli_offset)
                       /\ cli_offset' = CliNextOffset(cli_offset, a.result, silence_duration)
                       /\ cli_units' = Append(cli_units, scene.name)
                  ELSE UNCHANGED <<cli_all, cli_offset, cli_units>>
    /\ cli_scene_key' = cli_files[cli_k].name
    /\ cli_k' = cli_k + 1
    /\ UNCHANGED <<cli_files, cli_ret, cli_srt>>
    /\ UNCHANGED <<pipeline_vars, voice_vars, logging_vars>>

\* lines 324-332: after the loop
CliCloseGaps ==
    /\ cli_pc = "loop"
    /\ cli_k > Len(cli_files)
    /\ IF cli_all = <<>>
       THEN cli_pc' = "done" /\ cli_ret' = [ok |-> FALSE, path |-> "absent"]
                             /\ cli_all' = cli_all
       ELSE cli_pc' = "write" /\ cli_ret' = cli_ret /\ cli_all' = CloseGapsIn(cli_all)
    /\ UNCHANGED <<cli_files, cli_k, cli_offset, cli_units, cli_scene_key,
                   cli_scene_segments, cli_outcome, cli_srt>>
    /\ UNCHANGED <<pipeline_vars, voice_vars, logging_vars>>

\* f.write(segment.to_srt_format()); f.write("\n"): three lines and a blank one
RECURSIVE CliSrtOf(_, _)
CliSrtOf(all, i) ==
    IF i > Len(all) THEN <<>>
    ELSE SubSeq(to_srt_format(all[i]), 1, 3) \o <<[line |-> "blank"]>> \o CliSrtOf(all, i + 1)

\* lines 334-355: write the records
CliWrite ==
    /\ cli_pc = "write"
    /\ IF writable
       THEN /\ cli_srt' = CliSrtOf(cli_all, 1)
            /\ cli_ret' = [ok |-> TRUE, path |-> "combined_subtitles.srt"]
       ELSE /\ cli_ret' = [ok |-> FALSE, path |-> "none"]
            /\ cli_srt' = cli_srt
    /\ cli_pc' = "done"
    /\ UNCHANGED <<cli_files, cli_k, cli_all, cli_offset, cli_units, cli_scene_key,
                   cli_scene_segments, cli_outcome>>
    /\ UNCHANGED <<pipeline_vars, voice_vars, logging_vars>>

-----------------------------------------------------------------------------
(* pipeline/audio.py: generate_scene_voices, the texts sent to the engine and *)
(* the kana written to scene_sub.json *)

\* the moras the engine answers for one character of a text: punctuation and
\* blanks give no mora (a pause is no mora), a character may give two kana
EngineMoras(ch) ==
    CASE ch = "T" -> <<<<"チ">>>>
      [] ch = "x" -> <<<<"コ">>>>
      [] ch = "y" -> <<<<"ン">>>>
      [] ch = "z" -> <<<<"キ", "ャ">>>>
      [] OTHER -> <<>>

\* lines 127-132: the mora texts of the engine's answer for txt, joined
RECURSIVE KanaOfText(_)
KanaOfText(txt) ==
    IF txt = <<>> THEN <<>>
    ELSE Concat(EngineMoras(Head(txt))) \o KanaOfText(Tail(txt))

\* lines 27-29: str(t).strip() of every text of every content
RECURSIVE ContentParts(_, _)
ContentParts(contents, i) ==
    IF i > Len(contents) THEN <<>>
    ELSE [j \in 1..Len(contents[i].texts) |-> Strip(contents[i].texts[j])]
         \o ContentParts(contents, i + 1)

\* extract_scene_text: the parts; a title absent from the scene is the empty
\* string (scene_data.get("title", ""))
extract_scene_text(scene_data) ==
    LET head == IF Strip(scene_data.title) # <<>>
                THEN << Strip(scene_data.title) \o <<",">> >>
                ELSE <<>>
        parts == head \o ContentParts(scene_data.contents, 1)
    IN IF parts = <<>> THEN parts
       ELSE [parts EXCEPT ![Len(parts)] = @ \o <<".">>]

\* Python's xs[a:b]
Slice(xs, a, b) == SubSeq(xs, a + 1, Min(b, Len(xs)))

\* lines 137-141: texts_kana of every content, cut from kana_all from index 1 on
RECURSIVE EnrichContents(_, _, _, _)
EnrichContents(contents, i, idx, kana_all) ==
    IF i > Len(contents) THEN <<>>
    ELSE LET texts == contents[i].texts
         IN <<[contents[i] EXCEPT !.texts_kana = Slice(kana_all, idx, idx + Len(texts))]>>
            \o EnrichContents(contents, i + 1, idx + Len(texts), kana_all)

\* lines 135-141: the document written to scene_sub.json
EnrichedSceneSub(scene_data, kana_all) ==
    IF kana_all = <<>> THEN scene_data
    ELSE [scene_data EXCEPT !.title_kana = kana_all[1],
                            !.contents = EnrichContents(scene_data.contents, 1, 1, kana_all)]

\* lines 100-148: one iteration of the loop over the scenes; the engine
\* answers every request
GenerateSceneVoice ==
    /\ voice_pc = "loop"
    /\ voice_k <= Len(voice_data)
    /\ LET scene_data == voice_data[voice_k]
           text_all == extract_scene_text(scene_data)
           kana_all == [t \in 1..Len(text_all) |-> KanaOfText(text_all[t])]
       IN voice_subs' =
             IF Strip(Concat(text_all)) = <<>> THEN voice_subs
             ELSE Append(voice_subs, [scene |-> voice_k, text_all |-> text_all,
                                      scene_sub |-> EnrichedSceneSub(scene_data, kana_all)])
    /\ voice_k' = voice_k + 1
    /\ voice_pc' = IF voice_k = Len(voice_data) THEN "read" ELSE "loop"
    /\ UNCHANGED <<voice_data, voice_r, voice_segments>>
    /\ UNCHANGED <<pipeline_vars, cli_vars, logging_vars>>

\* subtitles.py, line 171: the subtitle stage reads a written document back
ReadSceneSub ==
    /\ voice_pc = "read"
    /\ voice_r <= Len(voice_subs)
    /\ voice_segments' = extract_segments_from_scene(voice_subs[voice_r].scene_sub)
    /\ voice_r' = voice_r + 1
    /\ UNCHANGED <<voice_pc, voice_data, voice_k, voice_subs>>
    /\ UNCHANGED <<pipeline_vars, cli_vars, logging_vars>>

-----------------------------------------------------------------------------
(* pipeline/logging_utils.py and the image-prompt CLI's use of it *)

\* most setup_logging / get_logger calls of a library client
MaxCalls == 3

\* level names given on the command line or in LOG_LEVEL: none, names of the
\* logging module in either case, a name it does not define
LevelInputs == {"", "DEBUG", "debug", "INFO", "WARNING", "ERROR", "verbose"}

\* the level names the logging module defines
LevelNames == {"DEBUG", "INFO", "WARNING", "ERROR"}

\* str.upper() on the names of the inputs
Upper(name) ==
    CASE name = "debug" -> "DEBUG"
      [] name = "verbose" -> "VERBOSE"
      [] OTHER -> name

\* lines 22-23: (level or os.getenv("LOG_LEVEL") or "INFO").upper(), then
\* getattr(logging, name, logging.INFO); None and "" are both falsy
ResolveLevel(level, env) ==
    LET log_level_name == Upper(IF level # "" THEN level ELSE IF env # "" THEN env ELSE "INFO")
    IN IF log_level_name \in LevelNames THEN log_level_name ELSE "INFO"

\* setup_logging(level): [configured, root_level, root_handlers, config_count]
\* after the call; logging.basicConfig does nothing to a root logger that has
\* a handler
setup_logging(level) ==
    IF configured
    THEN [configured |-> configured, root_level |-> root_level,
          root_handlers |-> root_handlers, config_count |-> config_count]
    ELSE IF root_handlers = 0
    THEN [configured |-> TRUE, root_level |-> ResolveLevel(level, env_log_level),
          root_handlers |-> 1, config_count |-> config_count + 1]
    ELSE [configured |-> TRUE, root_level |-> root_level,
          root_handlers |-> root_handlers, config_count |-> config_count]

\* the effect of one call on the process
Calling(level) ==
    LET after == setup_logging(level)
    IN /\ configured' = after.configured
       /\ root_level' = after.root_level
       /\ root_handlers' = after.root_handlers
       /\ config_count' = after.config_count
       /\ calls' = calls + 1

\* get_image_prompts.py, line 22, run when the script is loaded:
\* log = get_logger(__name__), which calls setup_logging()
ImportScript ==
    /\ program = "cli"
    /\ log_pc = "import"
    /\ Calling("")
    /\ log_pc' = "main"
    /\ UNCHANGED <<program, env_log_level, arg_log_level>>
    /\ UNCHANGED <<pipeline_vars, cli_vars, voice_vars>>

\* get_image_prompts.py, lines 222-223: main parses the arguments and calls
\* setup_logging(args.log_level)
Main ==
    /\ program = "cli"
    /\ log_pc = "main"
    /\ Calling(arg_log_level)
    /\ log_pc' = "run"
    /\ UNCHANGED <<program, env_log_level, arg_log_level>>
    /\ UNCHANGED <<pipeline_vars, cli_vars, voice_vars>>

\* any client of the library calling setup_logging with some level or none
SetupLoggingCall ==
    /\ program = "library"
    /\ calls < MaxCalls
    /\ \E level \in LevelInputs : Calling(level)
    /\ log_pc' = "run"
    /\ UNCHANGED <<program, env_log_level, arg_log_level>>
    /\ UNCHANGED <<pipeline_vars, cli_vars, voice_vars>>

\* get_logger(name), as every pipeline module does when it is imported
GetLoggerCall ==
    /\ program = "library"
    /\ calls < MaxCalls
    /\ Calling("")
    /\ log_pc' = "run"
    /\ UNCHANGED <<program, env_log_level, arg_log_level>>
    /\ UNCHANGED <<pipeline_vars, cli_vars, voice_vars>>

-----------------------------------------------------------------------------
\* a run of the package
Next == CombineAudio \/ ScanScenes \/ ProcessScene \/ CloseGaps \/ WriteSrt

\* a run of the package followed by a run of the CLI on the same directories
NextCli == Next \/ CliScan \/ CliProcessScene \/ CliCloseGaps \/ CliWrite

\* the voice stage writing scene_sub.json and the subtitle stage reading it
NextVoice == GenerateSceneVoice \/ ReadSceneSub

\* one process using the logging helper
NextLogging == ImportScript \/ Main \/ SetupLoggingCall \/ GetLoggerCall

-----------------------------------------------------------------------------
(* Inputs: the scene directories a run can find *)

\* most scenes of one run
MaxUnits == 3

\* most moras of one rich timing graph
MaxMoras == 3

\* most phrases of one rich timing graph
MaxPhrases == 2

\* most segments a rich timing graph's kana text is cut into
MaxSegs == 2

\* longest kana text of a segment in the locator inputs
MaxKana == 4

\* longest display text in the display-text inputs
MaxText == 3

\* 0.1 s
Tenth == TicksPerSecond \div 10

Mora(text, consonant_length, vowel_length) ==
    [text |-> text, consonant_length |-> consonant_length, vowel_length |-> vowel_length]

NoPause == [kind |-> "null", vowel_length |-> Null, consonant_length |-> Null]

AbsentPause == [kind |-> "absent", vowel_length |-> Null, consonant_length |-> Null]

PauseMora(vowel_length) ==
    [kind |-> "mora", vowel_length |-> vowel_length, consonant_length |-> Null]

Phrase(moras, pause_mora) == [moras |-> moras, pause_mora |-> pause_mora]

Query(accent_phrases, speedScale) ==
    [accent_phrases |-> accent_phrases, speedScale |-> speedScale]

Content(texts, texts_kana) == [texts |-> texts, texts_kana |-> texts_kana]

SceneSub(title, title_kana, contents) ==
    [title |-> title, title_kana |-> title_kana, contents |-> contents]

KO == Mora(<<"コ">>, Null, Tenth)

NN == Mora(<<"ン">>, Tenth, Tenth)

KYA == Mora(<<"キ", "ャ">>, Tenth, 2 * Tenth)

MarkN == Mora(<<"N">>, Null, Tenth)

MarkPau == Mora(<<"p", "a", "u">>, Null, 2 * Tenth)

Scene(missing, query, scene_sub_data) ==
    [name |-> <<>>, missing |-> missing, query_data |-> query,
     scene_sub_data |-> scene_sub_data]

\* timing graphs of the multi-scene runs
QueryKo == Query(<<Phrase(<<KO>>, NoPause)>>, 10)

QueryTail == Query(<<Phrase(<<KO, NN>>, PauseMora(Tenth))>>, 12)

QueryMarks == Query(<<Phrase(<<MarkN, KO, MarkPau, NN>>, NoPause)>>, Null)

QueryNoKey == Query(<<Phrase(<<KO>>, AbsentPause)>>, 10)

\* scene_sub.json documents of the multi-scene runs
SubKo == SceneSub(<<"T">>, <<"コ">>, <<>>)

SubKoN == SceneSub(<<"T", ",">>, <<"コ">>, <<Content(<<<<"x", ".">>>>, <<<<"ン">>>>)>>)

SubKoKo ==
    SceneSub(<<>>, <<>>, <<Content(<<<<"x">>, <<" ", "y">>>>, <<<<"コ">>, <<"コ", " ">>>>)>>)

SubNone == SceneSub(<<"T">>, <<" ">>, <<Content(<<<<"x">>>>, <<>>)>>)

\* the scenes of the multi-scene runs
StitchScenes ==
    { Scene("none", QueryKo, SubKo),        \* one segment over the whole graph
      Scene("none", QueryKo, SubKoN),       \* second segment not in the graph, mismatch
      Scene("none", QueryKo, SubKoKo),      \* second segment not in the graph, match
      Scene("none", QueryKo, SubNone),      \* no kana text at all
      Scene("none", QueryTail, SubKo),      \* graph goes on after the only segment
      Scene("none", QueryTail, SubKoN),     \* two segments, a pause after them
      Scene("none", QueryMarks, SubKoN),    \* markers before and between the segments
      Scene("query", QueryKo, SubKo),       \* voice_query.json missing
      Scene("sub", QueryKo, SubKo),         \* scene_sub.json missing
      Scene("none", QueryNoKey, SubKo) }    \* a phrase without the pause_mora key

\* the number in the name of the i-th scene: 1, 2, 10, 11, ...
SceneNumber(i) == IF i <= 2 THEN i ELSE i + 7

Digits(n) == IF n < 10 THEN <<n>> ELSE <<n \div 10, n % 10>>

\* glob order: descending by number (glob promises no order)
GlobNames(n) == << [i \in 1..n |-> Digits(SceneNumber(n + 1 - i))] >>

Named(scenes, names) == [i \in 1..Len(scenes) |-> [scenes[i] EXCEPT !.name = names[i]]]

\* a run over 1..MaxUnits scenes
StitchInput(dirs) ==
    \E n \in 1..MaxUnits : \E scenes \in [1..n -> StitchScenes] : \E g \in 1..Len(GlobNames(n)) :
        dirs = Named(scenes, GlobNames(n)[g])

\* rich timing graphs: every way to group at most MaxMoras moras into phrases
RichMoras == {KO, KYA, MarkN}

RichPauses == {NoPause, PauseMora(Tenth)}

RECURSIVE PhraseSeqs(_, _)
PhraseSeqs(budget, phrases) ==
    {<<>>} \cup
    IF phrases = 0 THEN {}
    ELSE UNION { { <<Phrase(ms, p)>> \o rest : ms \in [1..n -> RichMoras], p \in RichPauses,
                                              rest \in PhraseSeqs(budget - n, phrases - 1) }
                 : n \in 1..budget }

RichQueries == { Query(ap, 12) : ap \in PhraseSeqs(MaxMoras, MaxPhrases) \ {<<>>} }

\* the characters the timing graph advances over
AdvancingText(query) ==
    LET cts == Timeline(query).char_times
    IN Concat([j \in 1..Len(cts) |-> cts[j].char])

\* every way to cut s into at most m non-empty pieces
RECURSIVE Splits(_, _)
Splits(s, m) ==
    IF s = <<>> THEN {<<>>}
    ELSE IF m = 0 THEN {}
    ELSE UNION { { <<SubSeq(s, 1, i)>> \o r : r \in Splits(SubSeq(s, i + 1, Len(s)), m - 1) }
                 : i \in 1..Len(s) }

\* a document whose kana texts are the given pieces, in order
SubOfPieces(pieces, title) ==
    IF pieces = <<>> THEN SceneSub(title, <<>>, <<>>)
    ELSE SceneSub(title, pieces[1],
                  IF Len(pieces) = 1 THEN <<>>
                  ELSE <<Content([i \in 1..(Len(pieces) - 1) |-> <<"x">>], Tail(pieces))>>)

\* the one scene of a single-scene run
Single(query, scene_sub_data) ==
    <<[Scene("none", query, scene_sub_data) EXCEPT !.name = <<1>>]>>

\* one scene whose kana texts are a cut of what its timing graph advances over
TimingInput(dirs) ==
    \E q \in RichQueries : \E pieces \in Splits(AdvancingText(q), MaxSegs) :
        dirs = Single(q, SubOfPieces(pieces, <<"T">>))

\* kana texts of the locator inputs: the substrings of a word of MaxKana characters
KanaLetters == <<"コ", "ン", "ニ", "チ">>

KanaWord == [i \in 1..MaxKana |-> KanaLetters[((i - 1) % 4) + 1]]

KanaTexts == { SubSeq(KanaWord, i, j) : i \in 1..MaxKana, j \in 1..MaxKana } \ {<<>>}

\* the timing graph of the word: one mora per character
WordQuery ==
    Query(<<Phrase([i \in 1..MaxKana |-> Mora(<<KanaWord[i]>>, Null, Tenth)], NoPause)>>, 10)

\* one scene with arbitrary kana texts against the timing graph of the word
LocatorInput(dirs) ==
    \E n \in 1..MaxSegs : \E pieces \in [1..n -> KanaTexts] :
        dirs = Single(WordQuery, SubOfPieces(pieces, <<"T">>))

\* the Japanese full stop U+3002, one character
Kuten == "kuten"

\* display texts: every string of at most MaxText of these characters
TextChars == {"x", ".", ",", Kuten}

DisplayTexts == UNION { [1..n -> TextChars] : n \in 0..MaxText }

\* one scene with one segment and an arbitrary display text
TextInput(dirs) ==
    \E t \in DisplayTexts : dirs = Single(QueryKo, SceneSub(t, <<"コ">>, <<>>))

\* the worked examples: two moras of 0.1 s under one segment; a scene ending at
\* 1.0 s before a second scene; display texts ending in full stops
\* hiragana ko-n-ni-chi-ha, one string per character
Konnichiwa == <<"ko", "n", "ni", "chi", "ha">>

\* hiragana wa-a
Waa == <<"wa", "a">>

ExampleTexts ==
    { Konnichiwa \o <<Kuten>>, Waa \o <<Kuten, Kuten>>,
      Konnichiwa \o <<".">>, Waa \o <<".", ".">>,
      Konnichiwa \o <<",">>, Waa \o <<",", ",">> }

ExampleInput(dirs) ==
    \/ dirs = Single(Query(<<Phrase(<<Mora(<<"コ">>, 0, Tenth), Mora(<<"ン">>, 0, Tenth)>>,
                                    NoPause)>>, 10),
                     SceneSub(<<"T">>, <<"コ", "ン">>, <<>>))
    \/ dirs = Named(<<Scene("none", QueryKo, SubKo),
                      Scene("none", Query(<<Phrase(<<Mora(<<"コ">>, Null, 10 * Tenth)>>,
                                                   NoPause)>>, 10), SubKo)>>,
                    GlobNames(2)[1])
    \/ \E t \in ExampleTexts : dirs = Single(QueryKo, SceneSub(t, <<"コ">>, <<>>))

\* every order glob can list n scenes in
GlobOrders(n) ==
    { [i \in 1..n |-> Digits(SceneNumber(p[i]))]
      : p \in {q \in [1..n -> 1..n] : \A a, b \in 1..n : q[a] = q[b] => a = b} }

\* a run over scenes that give one segment or fail the boundary check, found
\* by glob in any order
OrderInput(dirs) ==
    \E n \in 1..MaxUnits :
       \E scenes \in [1..n -> {Scene("none", QueryKo, SubKo), Scene("none", QueryKo, SubKoN)}] :
          \E names \in GlobOrders(n) : dirs = Named(scenes, names)

\* times to format, in ticks: around the millisecond, second, minute and hour
\* boundaries (one tick is 1.515 ms, 659 ticks are 998.48 ms)
FormatTimes ==
    { 1, 659, 59 * TicksPerSecond + 659, 60 * TicksPerSecond + 1,
      3599 * TicksPerSecond + 659, 3600 * TicksPerSecond + 1,
      (2 * 3600 + 61) * TicksPerSecond + 7 }

\* one scene of two moras and two segments: the second segment is d1 .. d1 + d2
FormatInput(dirs) ==
    \E d1 \in FormatTimes : \E d2 \in FormatTimes :
       dirs = Single(Query(<<Phrase(<<Mora(<<"コ">>, Null, d1), Mora(<<"ン">>, Null, d2)>>,
                                    NoPause)>>, 10),
                     SubKoN)

\* a pause entry with both lengths set
PauseMoraBoth(vowel_length, consonant_length) ==
    [kind |-> "mora", vowel_length |-> vowel_length, consonant_length |-> consonant_length]

\* speedScale values of the pause inputs, in tenths (Null: the key is not there)
PauseSpeeds == {Null, 5, 10, 12, 20}

\* timing graphs with pauses and markers around the samples: a pause between
\* two segments, a graph without any sample, a marker and a pause after the
\* only sample, a marker between two segments, the other three markers
PauseGraphs ==
    { <<Phrase(<<KO>>, PauseMoraBoth(Tenth, Tenth)), Phrase(<<NN>>, NoPause)>>,
      <<Phrase(<<MarkPau>>, PauseMora(Tenth))>>,
      <<Phrase(<<KO, MarkN>>, PauseMoraBoth(2 * Tenth, Tenth))>>,
      <<Phrase(<<KO, MarkPau, NN>>, PauseMora(Tenth))>>,
      <<Phrase(<<Mora(<<"c", "l">>, Null, Tenth), KO, Mora(<<"U">>, Tenth, Null),
                 Mora(<<"I">>, Null, 2 * Tenth), NN>>, NoPause)>> }

\* one scene with such a graph at any of the speeds, cut into one or two segments
PauseInput(dirs) ==
    \E g \in PauseGraphs : \E s \in PauseSpeeds : \E sub \in {SubKo, SubKoN} :
        dirs = Single(Query(g, s), sub)

\* silence_duration values: 0.5 s (the default) and 0.2 s
SilenceDurations == {5 * Tenth, 2 * Tenth}

\* most contents of a scene of the voice stage
MaxContents == 2

\* most texts of one content
MaxTexts == 2

\* titles of the voice stage's scenes: none (or empty), blank, a title
VoiceTitles == { <<>>, <<" ">>, <<"T", " ">> }

VoiceTexts == { <<"x">>, <<"y">>, <<"z", " ">> }

\* the contents of the input JSON carry no kana yet
VoiceContents ==
    { Content(texts, <<>>) : texts \in UNION { [1..n -> VoiceTexts] : n \in 0..MaxTexts } }

VoiceScenes ==
    { SceneSub(t, <<>>, cs) :
         t \in VoiceTitles, cs \in UNION { [1..n -> VoiceContents] : n \in 0..MaxContents } }

\* the input JSON: one scene of any shape, or a scene without any text
\* followed by a scene with one text, with or without a title
VoiceInput(data) ==
    \/ \E sc \in VoiceScenes : data = <<sc>>
    \/ \E t1, t2 \in VoiceTitles :
          data = << SceneSub(t1, <<>>, <<>>),
                    SceneSub(t2, <<>>, <<Content(<< <<"x">> >>, <<>>)>>) >>

\* before generate_combined_subtitles and the CLI have run
RunNotStarted ==
    /\ combined_wav = <<>>
    /\ scene_files = <<>>
    /\ k = 1
    /\ all_segments = <<>>
    /\ current_time_offset = 0
    /\ offsets = <<>>
    /\ query_data = Query(<<>>, Null)
    /\ seg_positions = <<>>
    /\ char_times = <<>>
    /\ cur_time = 0
    /\ scene_segments = <<>>
    /\ scene_key = <<>>
    /\ outcome = "none"
    /\ ret = [ok |-> FALSE, path |-> "pending"]
    /\ opened = FALSE
    /\ srt_file = <<>>
    /\ log_records = <<>>
    /\ cli_pc = "start"
    /\ cli_files = <<>>
    /\ cli_k = 1
    /\ cli_all = <<>>
    /\ cli_offset = 0
    /\ cli_units = <<>>
    /\ cli_scene_key = <<>>
    /\ cli_scene_segments = <<>>
    /\ cli_outcome = "none"
    /\ cli_ret = [ok |-> FALSE, path |-> "pending"]
    /\ cli_srt = <<>>

\* the voice stage is not part of the run
VoiceOff ==
    /\ voice_pc = "off"
    /\ voice_data = <<>>
    /\ voice_k = 1
    /\ voice_subs = <<>>
    /\ voice_r = 1
    /\ voice_segments = <<>>

\* no process of the logging model runs
LoggingOff ==
    /\ program = "none"
    /\ log_pc = "off"
    /\ env_log_level = ""
    /\ arg_log_level = ""
    /\ configured = FALSE
    /\ root_level = "WARNING"
    /\ root_handlers = 0
    /\ config_count = 0
    /\ calls = 0

Init ==
    /\ pc = "voices"
    /\ \/ StitchInput(scene_dirs) /\ silence_duration \in SilenceDurations /\ writable = TRUE
       \/ TimingInput(scene_dirs) /\ silence_duration = 5 * Tenth /\ writable = TRUE
       \/ LocatorInput(scene_dirs) /\ silence_duration = 5 * Tenth /\ writable = TRUE
       \/ TextInput(scene_dirs) /\ silence_duration = 5 * Tenth /\ writable = TRUE
       \/ ExampleInput(scene_dirs) /\ silence_duration = 5 * Tenth /\ writable \in BOOLEAN
       \/ OrderInput(scene_dirs) /\ silence_duration = 5 * Tenth /\ writable \in BOOLEAN
       \/ FormatInput(scene_dirs) /\ silence_duration = 5 * Tenth /\ writable = TRUE
       \/ PauseInput(scene_dirs) /\ silence_duration = 5 * Tenth /\ writable = TRUE
    /\ RunNotStarted
    /\ VoiceOff
    /\ LoggingOff

\* the voice stage alone, on an input JSON
VoiceInit ==
    /\ pc = "off"
    /\ scene_dirs = <<>>
    /\ silence_duration = 5 * Tenth
    /\ writable = TRUE
    /\ RunNotStarted
    /\ voice_pc = "loop"
    /\ VoiceInput(voice_data)
    /\ voice_k = 1
    /\ voice_subs = <<>>
    /\ voice_r = 1
    /\ voice_segments = <<>>
    /\ LoggingOff

\* a fresh process: logging_utils is loaded (_CONFIGURED = False), the root
\* logger has its default level WARNING and no handler
LoggingInit ==
    /\ pc = "off"
    /\ scene_dirs = <<>>
    /\ silence_duration = 5 * Tenth
    /\ writable = TRUE
    /\ RunNotStarted
    /\ VoiceOff
    /\ program \in {"cli", "library"}
    /\ log_pc = (IF program = "cli" THEN "import" ELSE "run")
    /\ env_log_level \in LevelInputs
    /\ arg_log_level \in (IF program = "cli" THEN LevelInputs ELSE {""})
    /\ configured = FALSE
    /\ root_level = "WARNING"
    /\ root_handlers = 0
    /\ config_count = 0
    /\ calls = 0

Spec == Init /\ [][Next]_vars

CliSpec == Init /\ [][NextCli]_vars

VoiceSpec == VoiceInit /\ [][NextVoice]_vars

LoggingSpec == LoggingInit /\ [][NextLogging]_vars

-----------------------------------------------------------------------------
(* Properties *)

\* the gap-closing pass has run on all_segments (the function ends with an
\* empty list when it ends before the pass)
Closed == pc = "write" \/ (pc = "done" /\ all_segments # <<>>)

\* the last scene handed to analyze_voice_query_timing came back or failed an assert
Analyzed == outcome \in {"ok", "AssertionError"}

\* C1 (as claimed): after the gap-closing pass every segment ends exactly where
\* the next one starts: no gap and no overlap between adjacent segments.
C1_AdjacentMeet ==
    Closed => \A i \in 1..(Len(all_segments) - 1) :
                  all_segments[i].end_time = all_segments[i + 1].start_time

\* C2: after the gap-closing pass every segment of the global list ends no
\* earlier than it starts.
C2_EndNotBeforeStart ==
    Closed => \A i \in 1..Len(all_segments) :
                  all_segments[i].end_time >= all_segments[i].start_time

\* C2 witness: a finished run over several scenes whose later segments were
\* offset and whose inter-scene gap was closed
C2_Witness ==
    /\ pc = "done" /\ ret.ok
    /\ Len(offsets) >= 2
    /\ Len(all_segments) >= 3
    /\ \E i \in 1..Len(all_segments) :
          all_segments[i].start_time > 0 /\ all_segments[i].end_time > all_segments[i].start_time

\* C3: the offset after a scene that gave segments is the offset before it plus
\* the scene's own last end_time plus silence_duration, so the first segment
\* of every later scene starts at previous offset + previous local end +
\* silence_duration + its own local start_time, for any number of scenes.
C3_OffsetAdvance ==
    /\ \A j \in 1..Len(offsets) :
          /\ offsets[j].first <= Len(all_segments)
          /\ all_segments[offsets[j].first].start_time
                = offsets[j].offset + offsets[j].local_start
    /\ \A j \in 2..Len(offsets) :
          /\ offsets[j].offset
                = offsets[j - 1].offset + offsets[j - 1].local_end + silence_duration
          /\ all_segments[offsets[j].first].start_time
                = offsets[j - 1].offset + offsets[j - 1].local_end + silence_duration
                  + offsets[j].local_start
    /\ offsets # <<>> =>
          /\ offsets[1].offset = 0
          /\ current_time_offset
                = offsets[Len(offsets)].offset + offsets[Len(offsets)].local_end
                  + silence_duration

\* C3 witness: three scenes gave segments, the third after a non-zero offset
C3_Witness ==
    /\ pc = "done"
    /\ Len(offsets) = 3
    /\ offsets[2].offset > 0
    /\ offsets[3].offset > offsets[2].offset + silence_duration

\* what one scene does in the loop
SceneStatus(scene) ==
    LET segments == extract_segments_from_scene(scene.scene_sub_data)
    IN IF segments = <<>> THEN "no segments"
       ELSE analyze_voice_query_timing(scene.query_data, segments).status

\* the scenes without those whose boundary check fails
WithoutFailing(files) == SelectSeq(files, LAMBDA d : SceneStatus(d) # "AssertionError")

\* the list and offset obtained from scenes none of which fails
RECURSIVE StitchOf(_, _, _)
StitchOf(files, i, acc) ==
    IF i > Len(files) THEN acc
    ELSE LET segments == extract_segments_from_scene(files[i].scene_sub_data)
             a == analyze_voice_query_timing(files[i].query_data, segments)
         IN IF segments = <<>> THEN StitchOf(files, i + 1, acc)
            ELSE StitchOf(files, i + 1,
                          [all |-> AppendShifted(acc.all, a.result, 1, acc.offset),
                           offset |-> NextOffset(acc.offset, a.result, silence_duration)])

\* C4: a scene whose boundary check fails is skipped and the run goes on; the
\* global list (indices, texts, times) and the offset are those of the same
\* run without the failing scenes.
C4_FailingSceneIsolated ==
    LET done == SubSeq(scene_files, 1, k - 1)
        ref == StitchOf(WithoutFailing(done), 1, [all |-> <<>>, offset |-> 0])
    IN /\ outcome = "AssertionError" => pc \in {"loop", "write", "done"}
       /\ pc = "loop" => all_segments = ref.all /\ current_time_offset = ref.offset
       /\ pc \in {"write", "done"} /\ scene_files # <<>> =>
             /\ all_segments = IF Closed THEN CloseGapsIn(ref.all) ELSE ref.all
             /\ current_time_offset = ref.offset

\* C4 witness: a finished run in which a scene failed its boundary check
\* between two scenes that gave segments
C4_Witness ==
    /\ pc = "done" /\ ret.ok
    /\ Len(scene_files) = 3
    /\ SceneStatus(scene_files[2]) = "AssertionError"
    /\ Len(offsets) = 2

\* every mora text of a timing graph, in order
RECURSIVE MoraTexts(_, _)
MoraTexts(accent_phrases, i) ==
    IF i > Len(accent_phrases) THEN <<>>
    ELSE [j \in 1..Len(accent_phrases[i].moras) |-> accent_phrases[i].moras[j].text]
         \o MoraTexts(accent_phrases, i + 1)

RECURSIVE SumCharLens(_, _)
SumCharLens(cts, n) == IF n = 0 THEN 0 ELSE SumCharLens(cts, n - 1) + Len(cts[n].char)

\* C5: the samples' char_pos never decreases, each is the total length of the
\* samples emitted before it, and the samples' characters in order spell the
\* mora texts without the five non-advancing markers.
C5_TimelinePositions ==
    Analyzed =>
       /\ \A j \in 1..(Len(char_times) - 1) :
             char_times[j].char_pos <= char_times[j + 1].char_pos
       /\ \A j \in 1..Len(char_times) :
             char_times[j].char_pos = SumCharLens(char_times, j - 1)
       /\ Concat([j \in 1..Len(char_times) |-> char_times[j].char])
             = Concat(SelectSeq(MoraTexts(query_data.accent_phrases, 1),
                                LAMBDA t : t \notin NonAdvancing))

\* C5 witness: a timeline with a marker mora dropped and a sample after a
\* two-character mora
C5_Witness ==
    /\ outcome = "ok"
    /\ Len(char_times) >= 2
    /\ Len(char_times) < Len(MoraTexts(query_data.accent_phrases, 1))
    /\ \E j \in 2..Len(char_times) : char_times[j].char_pos = char_times[j - 1].char_pos + 2

\* the kana text of the i-th located segment
KanaOf(i) == seg_positions[i].segment.kana_text

\* C6: the located ranges start at 0, each starts where the previous one ends,
\* each is as long as its kana text (so none is empty), the last ends at the
\* length of all kana texts together, and start_chars / end_chars are the
\* first / last min(3, length) characters of the kana text.
C6_LocatorRanges ==
    seg_positions # <<>> =>
       /\ seg_positions[1].start_pos = 0
       /\ \A i \in 2..Len(seg_positions) :
             seg_positions[i].start_pos = seg_positions[i - 1].end_pos
       /\ \A i \in 1..Len(seg_positions) :
             LET kana == KanaOf(i)
                 n == Min(3, Len(kana))
             IN /\ Len(kana) > 0
                /\ seg_positions[i].end_pos - seg_positions[i].start_pos = Len(kana)
                /\ seg_positions[i].start_chars = SubSeq(kana, 1, n)
                /\ seg_positions[i].end_chars = SubSeq(kana, Len(kana) - n + 1, Len(kana))
       /\ seg_positions[Len(seg_positions)].end_pos
             = Len(Concat([i \in 1..Len(seg_positions) |-> KanaOf(i)]))

\* C6 witness: two located segments, one longer than three characters and one
\* shorter
C6_Witness ==
    /\ Len(seg_positions) = 2
    /\ Len(KanaOf(1)) = 4
    /\ Len(KanaOf(2)) = 2
    /\ seg_positions[1].start_chars # seg_positions[1].end_chars

\* every mora and every pause entry of a timing graph, in order
RECURSIVE AllMoras(_, _)
AllMoras(accent_phrases, i) ==
    IF i > Len(accent_phrases) THEN <<>>
    ELSE accent_phrases[i].moras \o AllMoras(accent_phrases, i + 1)

RECURSIVE SumScaled(_, _, _)
SumScaled(moras, n, tenths) ==
    IF n = 0 THEN 0
    ELSE SumScaled(moras, n - 1, tenths)
         + ((Or0(moras[n].consonant_length) + Or0(moras[n].vowel_length)) * 10) \div tenths

\* the analysed graph has advancing moras only (no marker, no pause) and the
\* only segment's kana text is these moras' texts together
WholeTextUnit ==
    /\ outcome \in {"ok", "AssertionError", "KeyError"}
    /\ \A p \in 1..Len(query_data.accent_phrases) :
          query_data.accent_phrases[p].pause_mora.kind = "null"
    /\ \A t \in {MoraTexts(query_data.accent_phrases, 1)[j]
                 : j \in 1..Len(MoraTexts(query_data.accent_phrases, 1))} :
          t \notin NonAdvancing
    /\ Len(seg_positions) = 1
    /\ KanaOf(1) = Concat(MoraTexts(query_data.accent_phrases, 1))

\* C7: for such a unit the function returns one segment from 0 to the sum of
\* (consonant_length + vowel_length) / speedScale over all moras.
C7_WholeTextTiming ==
    WholeTextUnit =>
       /\ outcome = "ok"
       /\ Len(scene_segments) = 1
       /\ scene_segments[1].start_time = 0
       /\ scene_segments[1].end_time
             = LET moras == AllMoras(query_data.accent_phrases, 1)
               IN SumScaled(moras, Len(moras), SpeedScale(query_data))

\* C7 witness: the two moras of 0.1 s at speedScale 1.0 give 0.0 .. 0.2
C7_Witness ==
    /\ WholeTextUnit
    /\ KanaOf(1) = <<"コ", "ン">>
    /\ SpeedScale(query_data) = 10
    /\ Len(char_times) = 2
    /\ scene_segments[1].start_time = 0
    /\ scene_segments[1].end_time = 2 * Tenth

\* the display text given for the i-th segment
TextOf(i) == seg_positions[i].segment.text

\* the only segment of the last analysed scene had display text t
OnlyText(t) == outcome = "ok" /\ Len(seg_positions) = 1 /\ TextOf(1) = t

\* C8 (as claimed): one trailing Japanese full stop is removed, a doubled one
\* is kept.
C8_KutenRemoved ==
    /\ OnlyText(Konnichiwa \o <<Kuten>>) => scene_segments[1].text = Konnichiwa
    /\ OnlyText(Waa \o <<Kuten, Kuten>>) => scene_segments[1].text = Waa \o <<Kuten, Kuten>>

\* C8 (amended): one trailing ASCII full stop is removed, a doubled one is
\* kept, and a display text ending in the Japanese full stop is kept as it
\* is, whether the stop is single or doubled.
C8_AsciiStopRemoved ==
    /\ OnlyText(Konnichiwa \o <<".">>) => scene_segments[1].text = Konnichiwa
    /\ OnlyText(Waa \o <<".", ".">>) => scene_segments[1].text = Waa \o <<".", ".">>
    /\ OnlyText(Konnichiwa \o <<Kuten>>) => scene_segments[1].text = Konnichiwa \o <<Kuten>>
    /\ OnlyText(Waa \o <<Kuten, Kuten>>) => scene_segments[1].text = Waa \o <<Kuten, Kuten>>
    /\ outcome = "ok" =>
          \A i \in 1..Len(scene_segments) :
             TextOf(i) # <<>> /\ TextOf(i)[Len(TextOf(i))] = Kuten
                => scene_segments[i].text = TextOf(i)

\* C8 witness: the text with one ASCII full stop was analysed and stored without it
C8_Witness ==
    /\ OnlyText(Konnichiwa \o <<".">>)
    /\ scene_segments[1].text = Konnichiwa

\* t ends in the mark c and the character before it is not c
EndsInSingle(t, c) ==
    /\ Len(t) >= 1
    /\ t[Len(t)] = c
    /\ Len(t) >= 2 => t[Len(t) - 1] # c

\* C9 (as claimed): the stored text is the display text less its last
\* character when that is a single "." or "," and the display text otherwise.
C9_OneMarkRemoved ==
    outcome = "ok" =>
       \A i \in 1..Len(scene_segments) :
          scene_segments[i].text
             = IF EndsInSingle(TextOf(i), ".") \/ EndsInSingle(TextOf(i), ",")
               THEN SubSeq(TextOf(i), 1, Len(TextOf(i)) - 1)
               ELSE TextOf(i)

\* C9 (amended): a single trailing "." is removed first and then a single
\* trailing "," of what is left, so a text ending in ",." (not ",,.") loses
\* two characters; never more than two are removed and a text ending in ".."
\* or ",," is stored unchanged.
C9_StopThenComma ==
    outcome = "ok" =>
       \A i \in 1..Len(scene_segments) :
          LET t == TextOf(i)
              out == scene_segments[i].text
              rest == SubSeq(t, 1, Len(t) - 1)
          IN /\ EndsInSingle(t, ".") /\ EndsInSingle(rest, ",")
                   => out = SubSeq(t, 1, Len(t) - 2)
             /\ EndsInSingle(t, ".") /\ ~EndsInSingle(rest, ",") => out = rest
             /\ ~EndsInSingle(t, ".") /\ EndsInSingle(t, ",") => out = rest
             /\ ~EndsInSingle(t, ".") /\ ~EndsInSingle(t, ",") => out = t
             /\ Len(t) - Len(out) <= 2

\* C9 witness: a text ending in ",." stored without both marks
C9_Witness ==
    /\ outcome = "ok"
    /\ Len(scene_segments) = 1
    /\ TextOf(1) = <<"x", ",", ".">>
    /\ scene_segments[1].text = <<"x">>

\* C10 (as claimed): the offset added to a scene's segments is the time at
\* which that scene's audio starts in the combined audio track.
C10_OffsetIsAudioStart ==
    \A j \in 1..Len(offsets) : \A w \in 1..Len(combined_wav) :
        combined_wav[w].scene = offsets[j].scene
            => offsets[j].offset = combined_wav[w].start_time

\* the scene cannot contribute a segment: an artifact is missing, it has no
\* segments or its boundary check fails
NoSurvivor(d) ==
    d.missing # "none" \/ SceneStatus(d) \in {"no segments", "AssertionError"}

\* C11: while the global list is empty the output file is neither opened nor
\* written; a run that ends with an empty list returns (False, ""); and the
\* list is non-empty, or the run at the output file or ended by an exception,
\* only when some scene has both artifacts, has segments and passes its
\* boundary check (when no scene survives, the run ends with the empty list).
C11_NoSurvivorNoOutput ==
    /\ all_segments = <<>> => ~opened /\ srt_file = <<>>
    /\ pc = "done" /\ all_segments = <<>> => ret = [ok |-> FALSE, path |-> "none"]
    /\ all_segments # <<>> \/ pc \in {"write", "crashed"} =>
          \E i \in 1..Len(scene_dirs) : ~NoSurvivor(scene_dirs[i])

\* C11 witness: a run over a scene with a missing artifact, a scene without
\* segments and a scene failing its boundary check has returned failure
C11_Witness ==
    /\ pc = "done"
    /\ ret = [ok |-> FALSE, path |-> "none"]
    /\ ~opened
    /\ Len(scene_dirs) = 3
    /\ Len(scene_files) = 2
    /\ SceneStatus(scene_files[1]) = "no segments"
    /\ SceneStatus(scene_files[2]) = "AssertionError"

\* the scenes that have segments
Yielding(files) ==
    SelectSeq(files, LAMBDA d : extract_segments_from_scene(d.scene_sub_data) # <<>>)

\* C12: a scene that gives no timed segment changes neither the offset nor the
\* global list: right after such a scene, and when the loop is over, both
\* are those of the same run without the scenes that have no segments.
C12_EmptyUnitIgnored ==
    LET done == SubSeq(scene_files, 1, k - 1)
        ref == StitchOf(Yielding(done), 1, [all |-> <<>>, offset |-> 0])
    IN /\ pc = "loop" /\ outcome = "no segments" =>
             all_segments = ref.all /\ current_time_offset = ref.offset
       /\ pc \in {"write", "done"} /\ scene_files # <<>> =>
             /\ current_time_offset = ref.offset
             /\ all_segments = IF Closed THEN CloseGapsIn(ref.all) ELSE ref.all

\* C12 witness: a finished run in which a scene without segments stood
\* between two scenes that gave segments
C12_Witness ==
    /\ pc = "done" /\ ret.ok
    /\ Len(scene_files) = 3
    /\ SceneStatus(scene_files[2]) = "no segments"
    /\ Len(offsets) = 2
    /\ offsets[2].offset = offsets[1].offset + offsets[1].local_end + silence_duration

\* C13: the k-th element of the global list has index k, at every point of
\* the run.
C13_GlobalIndices ==
    \A i \in 1..Len(all_segments) : all_segments[i].index = i

\* C13 witness: after a skipped scene, the last scene's segments, numbered
\* from 1 by analyze_voice_query_timing, sit at later positions of the list
C13_Witness ==
    /\ pc = "done" /\ ret.ok
    /\ Len(scene_files) = 3
    /\ Len(offsets) = 2
    /\ outcome = "ok"
    /\ Len(scene_segments) = 2
    /\ scene_segments[1].index = 1
    /\ offsets[2].first > 1
    /\ all_segments[offsets[2].first + 1].index = offsets[2].first + 1

\* position in the global list of the last segment of the j-th contributing scene
LastOf(j) == IF j < Len(offsets) THEN offsets[j + 1].first - 1 ELSE Len(all_segments)

\* C14: of two scenes, the one with the smaller number in its name has all its
\* segments earlier in the global list, and its audio earlier in the
\* combined audio track.
C14_NumericOrder ==
    /\ \A a, b \in 1..Len(offsets) :
          DigitsValue(offsets[a].scene) < DigitsValue(offsets[b].scene)
             => LastOf(a) < offsets[b].first
    /\ \A a, b \in 1..Len(combined_wav) :
          DigitsValue(combined_wav[a].scene) < DigitsValue(combined_wav[b].scene)
             => a < b /\ combined_wav[a].end_time <= combined_wav[b].start_time

\* C14 witness: glob listed scene_10 first; scene_1, scene_2, scene_10 were
\* stitched and combined in this order
C14_Witness ==
    /\ pc = "done" /\ ret.ok
    /\ scene_dirs[1].name = <<1, 0>>
    /\ Len(offsets) = 3
    /\ offsets[2].scene = <<2>>
    /\ offsets[3].scene = <<1, 0>>
    /\ Len(combined_wav) = 3
    /\ combined_wav[2].scene = <<2>>
    /\ combined_wav[3].scene = <<1, 0>>

\* the start and end times of a list of segments
TimesOf(segs) == [i \in 1..Len(segs) |-> <<segs[i].start_time, segs[i].end_time>>]

\* C15 (as claimed): when the package and the CLI have both timed the same
\* scene, every segment has the same start_time and end_time in both results.
C15_SameTimingAsCli ==
    outcome = "ok" /\ cli_outcome = "ok" /\ cli_scene_key = scene_key
       => TimesOf(cli_scene_segments) = TimesOf(scene_segments)

\* the names of a list of scenes
NamesOf(files) == [i \in 1..Len(files) |-> files[i].name]

\* C16 (as claimed): when the CLI's run has ended, it has taken the scenes in
\* the package's order, appended the segments of the same scenes and, when
\* both wrote their file, written the same records.
C16_SameStitchingAsCli ==
    cli_pc \in {"done", "crashed"} =>
       /\ NamesOf(cli_files) = NamesOf(scene_files)
       /\ cli_units = [j \in 1..Len(offsets) |-> offsets[j].scene]
       /\ ret.ok /\ cli_ret.ok => cli_srt = srt_file

\* scenes of the run that gave no segment to the global list
SkippedUnits == Len(scene_dirs) - Len(offsets)

\* C17 (as claimed): a run that wrote subtitles although it skipped scenes
\* reports the number of skipped scenes, in its return value or in a log
\* record.
C17_SkippedCountSurfaced ==
    pc = "done" /\ ret.ok /\ SkippedUnits > 0 =>
       \/ "skipped" \in DOMAIN ret /\ ret.skipped = SkippedUnits
       \/ \E i \in 1..Len(log_records) :
             /\ "skipped" \in DOMAIN log_records[i].extra
             /\ log_records[i].extra.skipped = SkippedUnits

\* C18: writing the records changes no segment, and serialising the segments
\* again after the write gives exactly what was written.
C18_SerializeReadOnly ==
    [][pc = "write" =>
          /\ all_segments' = all_segments
          /\ ret'.ok => srt_file' = SrtOf(all_segments', 1)]_vars

\* C18 witness: a written file of several records that equals a second
\* serialisation of the list
C18_Witness ==
    /\ pc = "done" /\ ret.ok
    /\ Len(all_segments) >= 3
    /\ Len(srt_file) = 4 * Len(all_segments)
    /\ srt_file = SrtOf(all_segments, 1)

\* the rendered fields f show the time t: whole hours, minutes and seconds of
\* floor(t), and the milliseconds ms with ms / 1000 <= t mod 1 < (ms + 1) / 1000
Renders(f, t) ==
    LET whole == t \div TicksPerSecond
        frac == t % TicksPerSecond
    IN /\ f.hours = whole \div 3600
       /\ f.minutes = (whole % 3600) \div 60
       /\ f.seconds_int = whole % 60
       /\ f.milliseconds * TicksPerSecond <= frac * 1000
       /\ frac * 1000 < (f.milliseconds + 1) * TicksPerSecond

\* C19: every written record is four lines: the index, the start and end
\* times rendered with the sub-second part cut to whole milliseconds (never
\* rounded up), the display text and a blank line.
C19_TruncatedTimes ==
    pc = "done" /\ ret.ok =>
       /\ Len(srt_file) = 4 * Len(all_segments)
       /\ \A i \in 1..Len(all_segments) :
             LET r == SubSeq(srt_file, 4 * i - 3, 4 * i)
             IN /\ r[1] = [line |-> "index", index |-> all_segments[i].index]
                /\ r[2].line = "times"
                /\ Renders(r[2].start, all_segments[i].start_time)
                /\ Renders(r[2].end, all_segments[i].end_time)
                /\ r[3] = [line |-> "text", text |-> all_segments[i].text]
                /\ r[4] = [line |-> "blank"]

\* C19 witness: a written record whose end time is past one hour and one
\* minute and whose sub-millisecond remainder is more than half a millisecond
C19_Witness ==
    /\ pc = "done" /\ ret.ok
    /\ \E i \in 1..Len(all_segments) :
          /\ srt_file[4 * i - 2].end.hours >= 1
          /\ srt_file[4 * i - 2].end.minutes >= 1
          /\ (((all_segments[i].end_time % TicksPerSecond) * 1000) % TicksPerSecond) * 2
                > TicksPerSecond
          /\ all_segments[i].start_time > 0

\* C20: a segment's start_time is the start_time of the first sample, in
\* timeline order, whose char_pos is at or after the segment's start_pos, and
\* 0 when there is no such sample.
C20_StartRule ==
    outcome = "ok" =>
       \A i \in 1..Len(scene_segments) :
          LET sp == seg_positions[i].start_pos
          IN \/ /\ \A j \in 1..Len(char_times) : char_times[j].char_pos < sp
                /\ scene_segments[i].start_time = 0
             \/ \E j \in 1..Len(char_times) :
                   /\ char_times[j].char_pos >= sp
                   /\ \A j2 \in 1..(j - 1) : char_times[j2].char_pos < sp
                   /\ scene_segments[i].start_time = char_times[j].start_time

\* C20 witness: a second segment starting at a later sample, at a time
\* after 0, with a longer mora before it
C20_Witness ==
    /\ outcome = "ok"
    /\ Len(scene_segments) = 2
    /\ Len(char_times) >= 3
    /\ seg_positions[2].start_pos = 2
    /\ char_times[2].char_pos = 2
    /\ scene_segments[2].start_time = char_times[2].start_time
    /\ scene_segments[2].start_time > 0

\* C21: a segment's end_time is the end_time of the last sample, in timeline
\* order, whose char_pos is before the segment's end_pos, and the unit's total
\* elapsed time (cur_time, trailing pauses and markers included) when there is
\* no such sample.
C21_EndRule ==
    outcome = "ok" =>
       \A i \in 1..Len(scene_segments) :
          LET ep == seg_positions[i].end_pos
          IN \/ /\ \A j \in 1..Len(char_times) : char_times[j].char_pos >= ep
                /\ scene_segments[i].end_time = cur_time
             \/ \E j \in 1..Len(char_times) :
                   /\ char_times[j].char_pos < ep
                   /\ \A j2 \in (j + 1)..Len(char_times) : char_times[j2].char_pos >= ep
                   /\ scene_segments[i].end_time = char_times[j].end_time

\* C21 witness: a first segment ending at its own last sample, before the
\* next segment's sample and before the total time
C21_Witness ==
    /\ outcome = "ok"
    /\ Len(scene_segments) = 2
    /\ Len(char_times) >= 3
    /\ seg_positions[1].end_pos = 2
    /\ scene_segments[1].end_time = char_times[2].end_time
    /\ scene_segments[1].end_time < char_times[3].end_time
    /\ scene_segments[2].end_time < cur_time

\* a unit without any sample: its segment ends at the total elapsed time of
\* the marker and the pause
C21_DefaultCase ==
    /\ outcome = "ok"
    /\ char_times = <<>>
    /\ Len(scene_segments) >= 1
    /\ cur_time > 0
    /\ scene_segments[1].end_time = cur_time

\* the sample segment i takes its start time from does not match the
\* segment's boundary prefix
StartMismatch(i) ==
    \E j \in 1..Len(char_times) :
       /\ char_times[j].char_pos >= seg_positions[i].start_pos
       /\ \A j2 \in 1..(j - 1) : char_times[j2].char_pos < seg_positions[i].start_pos
       /\ LET chars == seg_positions[i].start_chars
              n == Min(Len(char_times[j].char), Len(chars))
          IN char_times[j].char # SubSeq(chars, 1, n)

\* the sample segment i takes its end time from does not match the segment's
\* boundary suffix
EndMismatch(i) ==
    \E j \in 1..Len(char_times) :
       /\ char_times[j].char_pos < seg_positions[i].end_pos
       /\ \A j2 \in (j + 1)..Len(char_times) : char_times[j2].char_pos >= seg_positions[i].end_pos
       /\ LET chars == seg_positions[i].end_chars
              n == Min(Len(char_times[j].char), Len(chars))
          IN char_times[j].char # SubSeq(chars, Len(chars) - n + 1, Len(chars))

\* C22: a result is returned only when no segment's start or end sample
\* mismatches the segment's boundary characters; with any mismatch the call
\* ends in an error and returns no segment at all.
C22_NoMismatchReturned ==
    Analyzed =>
       LET mismatch == \E i \in 1..Len(seg_positions) : StartMismatch(i) \/ EndMismatch(i)
       IN /\ mismatch => outcome = "AssertionError" /\ scene_segments = <<>>
          /\ ~mismatch => outcome = "ok" /\ Len(scene_segments) = Len(seg_positions)

\* C22 witness: a unit whose first segment matches at both ends and whose
\* second segment starts at a sample of another character; nothing is returned
C22_Witness ==
    /\ outcome = "AssertionError"
    /\ Len(seg_positions) = 2
    /\ ~StartMismatch(1) /\ ~EndMismatch(1)
    /\ StartMismatch(2)
    /\ scene_segments = <<>>
    /\ all_segments = <<>>

\* what a pause entry adds to the elapsed time: nothing for a null entry
PauseLength(pause) ==
    IF pause.kind = "mora"
    THEN ((Or0(pause.vowel_length) + Or0(pause.consonant_length)) * 10) \div PauseDivisor
    ELSE 0

RECURSIVE SumPauses(_, _)
SumPauses(accent_phrases, n) ==
    IF n = 0 THEN 0
    ELSE SumPauses(accent_phrases, n - 1) + PauseLength(accent_phrases[n].pause_mora)

\* C23: the elapsed time of a unit is the sum of its moras' durations, each
\* divided by speedScale, plus (vowel_length + consonant_length) / 1.1 of every
\* pause entry whatever the speedScale; a pause emits no sample and does not
\* move the cursor (samples and positions are those of the advancing moras).
C23_PauseDamped ==
    Analyzed =>
       LET phrases == query_data.accent_phrases
           moras == AllMoras(phrases, 1)
       IN /\ cur_time = SumScaled(moras, Len(moras), SpeedScale(query_data))
                           + SumPauses(phrases, Len(phrases))
          /\ Len(char_times)
                = Len(SelectSeq(MoraTexts(phrases, 1), LAMBDA t : t \notin NonAdvancing))
          /\ \A j \in 2..Len(char_times) :
                char_times[j].char_pos
                   = char_times[j - 1].char_pos + Len(char_times[j - 1].char)

\* C23 witness: at speedScale 2.0 a mora of 0.1 s lasts 0.05 s and the pause
\* of 0.1 + 0.1 s after it adds 0.2 / 1.1 s before the next sample
C23_Witness ==
    /\ outcome = "ok"
    /\ SpeedScale(query_data) = 20
    /\ Len(char_times) = 2
    /\ query_data.accent_phrases[1].pause_mora.kind = "mora"
    /\ char_times[1].end_time = Tenth \div 2
    /\ char_times[2].start_time = char_times[1].end_time + (2 * Tenth * 10) \div 11
    /\ char_times[2].char_pos = 1

\* the moras and pause entries of a timing graph in the order the loops visit
\* them: [text, time], the time a mora or a pause takes; a pause has no text
RECURSIVE Events(_, _, _)
Events(accent_phrases, i, tenths) ==
    IF i > Len(accent_phrases) THEN <<>>
    ELSE LET ph == accent_phrases[i]
         IN [j \in 1..Len(ph.moras) |->
                [text |-> ph.moras[j].text,
                 time |-> SumScaled(ph.moras, j, tenths) - SumScaled(ph.moras, j - 1, tenths)]]
            \o <<[text |-> <<>>, time |-> PauseLength(ph.pause_mora)]>>
            \o Events(accent_phrases, i + 1, tenths)

\* the time of the events strictly between positions a and b
RECURSIVE TimeBetween(_, _, _)
TimeBetween(ev, a, b) ==
    IF a + 1 >= b THEN 0 ELSE ev[a + 1].time + TimeBetween(ev, a + 1, b)

\* C24: every sample starts where the previous sample ended plus the time of
\* the markers (and pauses) met in between, the first one after the markers
\* before it; its char_pos is the previous sample's plus that sample's length,
\* whatever markers lie in between.
C24_MarkersTakeTimeOnly ==
    Analyzed =>
       LET ev == Events(query_data.accent_phrases, 1, SpeedScale(query_data))
           idx == SelectSeq([e \in 1..Len(ev) |-> e],
                            LAMBDA e : ev[e].text # <<>> /\ ev[e].text \notin NonAdvancing)
       IN /\ Len(char_times) = Len(idx)
          /\ \A j \in 1..Len(char_times) :
                LET prev_end == IF j = 1 THEN 0 ELSE char_times[j - 1].end_time
                    prev_idx == IF j = 1 THEN 0 ELSE idx[j - 1]
                    prev_pos == IF j = 1 THEN 0
                                ELSE char_times[j - 1].char_pos + Len(char_times[j - 1].char)
                IN /\ char_times[j].start_time = prev_end + TimeBetween(ev, prev_idx, idx[j])
                   /\ char_times[j].end_time = char_times[j].start_time + ev[idx[j]].time
                   /\ char_times[j].char_pos = prev_pos
                   /\ char_times[j].char = ev[idx[j]].text

\* C24 witness: a pau marker of 0.2 s between two samples: the second sample
\* starts 0.2 s after the first ended, at the next character
C24_Witness ==
    /\ outcome = "ok"
    /\ SpeedScale(query_data) = 10
    /\ Len(char_times) = 2
    /\ Len(query_data.accent_phrases) = 1
    /\ Len(query_data.accent_phrases[1].moras) = 3
    /\ query_data.accent_phrases[1].moras[2].text = <<"p", "a", "u">>
    /\ char_times[2].start_time = char_times[1].end_time + 2 * Tenth
    /\ char_times[2].char_pos = 1

\* the unit analysed last has a phrase without a pause: the entry is null or
\* the phrase has no such key
HasPauselessPhrase ==
    /\ outcome \in {"ok", "AssertionError", "KeyError"}
    /\ \E p \in 1..Len(query_data.accent_phrases) :
          query_data.accent_phrases[p].pause_mora.kind \in {"null", "absent"}

\* C25 (as claimed): a unit with a phrase that carries no pause is analysed to
\* the end, its elapsed time being its moras' durations plus the pauses the
\* other phrases carry, and the run over the units is not aborted.
C25_PauselessPhraseProcessed ==
    /\ pc # "crashed"
    /\ HasPauselessPhrase =>
          LET phrases == query_data.accent_phrases
              moras == AllMoras(phrases, 1)
          IN /\ Analyzed
             /\ cur_time = SumScaled(moras, Len(moras), SpeedScale(query_data))
                              + SumPauses(phrases, Len(phrases))

\* C26: the step that closes the gaps keeps the number of segments and every
\* start_time, index and text, lowers no end_time, leaves the last segment as
\* it is, and changes the end_time of segment i exactly when it was less than
\* the start_time of segment i + 1, to that start_time.
C26_GapPassFrame ==
    [][pc = "loop" /\ pc' = "write" =>
          /\ Len(all_segments') = Len(all_segments)
          /\ all_segments'[Len(all_segments)] = all_segments[Len(all_segments)]
          /\ \A i \in 1..Len(all_segments) :
                /\ all_segments'[i].start_time = all_segments[i].start_time
                /\ all_segments'[i].index = all_segments[i].index
                /\ all_segments'[i].text = all_segments[i].text
                /\ all_segments'[i].end_time >= all_segments[i].end_time
                /\ all_segments'[i].end_time # all_segments[i].end_time
                      <=> /\ i < Len(all_segments)
                          /\ all_segments[i].end_time < all_segments[i + 1].start_time
                /\ all_segments'[i].end_time # all_segments[i].end_time
                      => all_segments'[i].end_time = all_segments[i + 1].start_time]_vars

\* C26 witness: after the pass, the last segment of the first scene, which
\* ended before the silence, ends where the second scene starts; the segment
\* before it and the last segment of all end where they ended before
C26_Witness ==
    /\ Closed
    /\ Len(offsets) = 2
    /\ offsets[2].first = 3
    /\ Len(all_segments) >= 3
    /\ offsets[1].offset + offsets[1].local_end < all_segments[3].start_time
    /\ all_segments[2].end_time = all_segments[3].start_time
    /\ all_segments[1].end_time = all_segments[2].start_time
    /\ all_segments[Len(all_segments)].end_time = offsets[2].offset + offsets[2].local_end

\* C27 (as claimed): in every returned result, the sample a segment takes its
\* start time from is at the segment's start_pos exactly, and the sample it
\* takes its end time from ends at the segment's end_pos exactly.
C27_OwnSamples ==
    outcome = "ok" =>
       \A i \in 1..Len(scene_segments) :
          /\ \A j \in 1..Len(char_times) :
                /\ char_times[j].char_pos >= seg_positions[i].start_pos
                /\ \A j2 \in 1..(j - 1) : char_times[j2].char_pos < seg_positions[i].start_pos
                => char_times[j].char_pos = seg_positions[i].start_pos
          /\ \A j \in 1..Len(char_times) :
                /\ char_times[j].char_pos < seg_positions[i].end_pos
                /\ \A j2 \in (j + 1)..Len(char_times) :
                      char_times[j2].char_pos >= seg_positions[i].end_pos
                => char_times[j].char_pos + Len(char_times[j].char) = seg_positions[i].end_pos

\* the written document d gives the title and every text its own kana
OwnKana(d) ==
    LET scene_data == voice_data[d.scene]
        sub == d.scene_sub
    IN /\ sub.title_kana = KanaOfText(scene_data.title)
       /\ \A c \in 1..Len(sub.contents) :
             /\ Len(sub.contents[c].texts_kana) = Len(sub.contents[c].texts)
             /\ \A i \in 1..Len(sub.contents[c].texts) :
                   sub.contents[c].texts_kana[i] = KanaOfText(sub.contents[c].texts[i])

\* C28 (as claimed): in every scene_sub.json written, title_kana is the kana of
\* the scene's title and texts_kana[i] the kana of texts[i], as many as there
\* are texts, also for a scene without a title or with a blank one; and every
\* segment read back pairs a display text with the kana of that text.
C28_KanaOfOwnText ==
    /\ \A n \in 1..Len(voice_subs) : OwnKana(voice_subs[n])
    /\ \A i \in 1..Len(voice_segments) :
          voice_segments[i].kana_text = KanaOfText(voice_segments[i].text)

\* the root logger is configured by the first call and by no other
ConfiguredOnce ==
    /\ config_count = (IF calls = 0 THEN 0 ELSE 1)
    /\ configured <=> calls > 0
    /\ root_handlers = config_count

\* C29 (as claimed): the root logger is configured exactly once, by the first
\* setup_logging or get_logger call, and once the image-prompt CLI's main has
\* called setup_logging(args.log_level), the level in effect is the one that
\* argument (or, without it, LOG_LEVEL or INFO) names.
C29_CliLevelInEffect ==
    /\ ConfiguredOnce
    /\ program = "cli" /\ log_pc = "run"
          => root_level = ResolveLevel(arg_log_level, env_log_level)

\* every later call leaves the configuration as the first call left it
LaterCallsKeep ==
    [][configured => /\ root_level' = root_level
                     /\ root_handlers' = root_handlers
                     /\ configured']_vars

====
